---------------------------- MODULE Spec2Model ----------------------------
(***************************************************************************)
(* pyForceDAQ: the DataRecorder of forceDAQ/recorder.py, the orchestrator  *)
(* that owns the sensor processes, the optional UDP connection process and *)
(* the output file.                                                        *)
(*                                                                         *)
(* The recorder's methods run in the owner's thread; `pc` is the position  *)
(* of that thread.  The sensor processes and the UDP process run           *)
(* concurrently with it: their steps (WorkerSample, WorkerBias,            *)
(* WorkerBiasFail, UdpReceive) interleave with the recorder's steps at     *)
(* every point where the recorder's code hands control to them, i.e.       *)
(* between two calls into a worker.                                        *)
(*                                                                         *)
(* SensorProcess, UDPConnectionProcess, Timer and the event types live in  *)
(* modules of the repository that are not part of the sources at hand      *)
(* (daq, misc, types); they are modelled from the specification text       *)
(* (sections 3, 4.1, 4.2, 4.3).                                            *)
(***************************************************************************)
EXTENDS Integers, Sequences, FiniteSets, TLC

(***************************************************************************)
(* Bounds of the model.                                                    *)
(***************************************************************************)
MaxSamples == 2     \* Spec: samples the workers buffer over a run
MaxOpens == 2       \* Spec: open_data_file calls over a run
TrigSamples == 1    \* SpecTrig: samples the worker buffers over a run
TrigTriggers == 2   \* SpecTrig: write_soft_trigger calls over a run
TrigOpens == 1      \* SpecTrig: open_data_file calls over a run
UdpSamples == 1     \* SpecUdp: samples the worker buffers over a run
UdpMessages == 1    \* SpecUdp: network messages received over a run
UdpTriggers == 1    \* SpecUdp: write_soft_trigger calls over a run
UdpOpens == 1       \* SpecUdp: open_data_file calls over a run
BiasSamples == 2    \* SpecBias: samples the workers buffer over a run
FilesOpens == 2     \* SpecFiles: open_data_file calls over a run
CtorLen == 3        \* SpecCtor: entries of the settings list
CtorSamples == 1    \* SpecCtor: samples the workers buffer over a run
DrainEvents == 3    \* SpecDrain: samples, messages and soft triggers
DrainOpens == 1     \* SpecDrain: open_data_file calls over a run
PauseEvents == 3    \* SpecPause: samples, messages and soft triggers
GuiMessages == 2     \* messages the peer sends while the application runs
GuiSamples == 1      \* samples the sensor process buffers under the gui
GuiSends == 2        \* messages waiting on the send queue
CodesEvents == 3     \* SpecCodes: samples, messages and soft triggers
ClosedSamples == 2   \* SpecClosed: samples the workers buffer over a run
ClosedQuits == 2     \* SpecClosed: quit() calls over a run
CountEvents == 2     \* SpecCount: samples, messages and soft triggers
CountOpens == 1      \* SpecCount: open_data_file calls over a run
LoopEvents == 2      \* SpecLoop: commands of the peer and samples
LoopSends == 2       \* SpecLoop: messages waiting on the send queue

(***************************************************************************)
(* Program constants.                                                      *)
(***************************************************************************)
CODE_SOFTTRIGGER == 88
CODE_UDPDATA == 99

\* Python's None, for a file handle, a file name argument, an attribute
PyNone == "<None>"

VARIABLES
    force_sensor_settings,  \* constructor argument
    poll_udp_connection,    \* constructor argument
    pc,                     \* position of the owner's thread
    cont,                   \* the caller pause_recording returns to
    k,                      \* loop index of pause_recording's sensor loop
    data,                   \* pause_recording's local `data`
    procs,                  \* self._force_sensor_processes
    sample_counter,         \* self.sample_counter
    udp,                    \* self.udp
    is_recording,           \* self._is_recording
    file,                   \* self._file: the path of the open file
    filename,               \* self.filename
    soft_trigger,           \* self._soft_trigger
    disk,                   \* the file system: path -> rows written
    dirs,                   \* the directories that exist
    minute,                 \* strftime("%Y%m%d%H%M", localtime())
    now,                    \* timer.time
    ret,                    \* the last completed call: raised, value
    produced,               \* history: every sample a worker buffered
    returned,               \* history: samples returned by pause/quit
    discarded,              \* history: samples drained by determine_biases
    unwritten,              \* history: samples drained with no file open
    nquit,                  \* history: completed quit() calls
    nudp,                   \* history: network messages received
    ntrig,                  \* history: write_soft_trigger calls
    opened,                 \* history: the open_data_file calls
    unpolled,               \* the samples not yet handed to a caller that
                            \* were buffered while the worker was not polling
    gui                     \* gui.py: the locals of start and record_data

vars == <<force_sensor_settings, poll_udp_connection, pc, cont, k, data,
          procs, sample_counter, udp, is_recording, file, filename,
          soft_trigger, disk, dirs, minute, now, ret, produced, returned,
          discarded, unwritten, nquit, nudp, ntrig, opened, unpolled, gui>>

(***************************************************************************)
(* Sequence helpers.                                                       *)
(***************************************************************************)
Range(s) == {s[i] : i \in 1..Len(s)}

RECURSIVE SeqMap(_, _)
SeqMap(Op(_), s) == IF s = <<>> THEN <<>>
                    ELSE <<Op(Head(s))>> \o SeqMap(Op, Tail(s))

RECURSIVE Count(_, _)
Count(P(_), s) == IF s = <<>> THEN 0
                  ELSE (IF P(Head(s)) THEN 1 ELSE 0) + Count(P, Tail(s))

RECURSIVE Filter(_, _)
Filter(P(_), s) == IF s = <<>> THEN <<>>
                   ELSE (IF P(Head(s)) THEN <<Head(s)>> ELSE <<>>)
                        \o Filter(P, Tail(s))

(***************************************************************************)
(* The event types (types.ForceData, types.SoftTrigger, types.UDPData).    *)
(***************************************************************************)
ForceData(device_id, time) ==
    [type |-> "ForceData", device_id |-> device_id, time |-> time]
SoftTrigger(time, code) ==
    [type |-> "SoftTrigger", time |-> time, code |-> code]
UDPData(time, string) ==
    [type |-> "UDPData", time |-> time, string |-> string]

IsForceData(d) == d.type = "ForceData"
IsSoftTrigger(d) == d.type = "SoftTrigger"
IsUDPData(d) == d.type = "UDPData"

(***************************************************************************)
(* Sensor Acquisition Worker (daq.SensorProcess), seen from the recorder.  *)
(***************************************************************************)
\* SensorProcess(settings = fs, ...) followed by start()
SensorProcess(fs) ==
    [device_id |-> fs.device_id, running |-> TRUE, polling |-> FALSE,
     biasing |-> FALSE, event_bias_is_available |-> FALSE, buffer |-> <<>>]

start_polling(w) == [w EXCEPT !.polling = TRUE]

\* the worker after pause_polling_get_buffer(); the call returns w.buffer
pause_polling_get_buffer(w) == [w EXCEPT !.polling = FALSE, !.buffer = <<>>]

determine_bias(w) == IF w.running THEN [w EXCEPT !.biasing = TRUE] ELSE w

stop(w) == [w EXCEPT !.running = FALSE, !.biasing = FALSE]

(***************************************************************************)
(* Command Channel Worker (misc.UDPConnectionProcess).                     *)
(***************************************************************************)
NoUdp ==
    [present |-> FALSE, running |-> FALSE, receive_queue |-> <<>>,
     send_queue |-> <<>>]
UDPConnectionProcess ==
    [present |-> TRUE, running |-> TRUE, receive_queue |-> <<>>,
     send_queue |-> <<>>]

(***************************************************************************)
(* DataRecorder.__init__                                                   *)
(***************************************************************************)
SensorSettings(device_id) == [valid |-> TRUE, device_id |-> device_id]
NotSettings == [valid |-> FALSE, device_id |-> 0]

\* lines 33-34: a single settings object is wrapped into a list
SettingsList(arg) == IF arg.is_list THEN arg.value ELSE <<arg.value>>

IsSensorSettings(fs) == fs.valid

\* what the last completed call handed to its caller
Return(val) == [raised |-> FALSE, val |-> val]
Raise == [raised |-> TRUE, val |-> <<>>]

\* lines 38-46: an entry of the wrong type builds a RuntimeError that is
\* never raised, and the loop goes on with the next entry
Construct ==
    /\ pc = "new"
    /\ LET valid == Filter(IsSensorSettings,
                           SettingsList(force_sensor_settings))
       IN /\ procs' = SeqMap(SensorProcess, valid)
          /\ sample_counter' = [d \in {fs.device_id : fs \in Range(valid)}
                                   |-> 0]
    /\ udp' = IF poll_udp_connection THEN UDPConnectionProcess ELSE NoUdp
    /\ is_recording' = FALSE
    /\ file' = PyNone
    /\ soft_trigger' = <<>>
    /\ ret' = Return(<<>>)
    /\ pc' = "idle"
    /\ UNCHANGED <<force_sensor_settings, poll_udp_connection, cont, k, data,
                   filename, disk, dirs, minute, now, produced, returned,
                   discarded, unwritten, nquit, nudp, ntrig,
                   opened, unpolled, gui>>


(***************************************************************************)
(* DataRecorder._write_data                                                *)
(***************************************************************************)
\* lines 110-118: the line written for one event
Row(d) ==
    CASE IsForceData(d) ->
           <<ToString(d.device_id), ToString(d.time), "Fx", "Fy", "Fz">>
      [] IsSoftTrigger(d) ->
           <<ToString(CODE_SOFTTRIGGER), ToString(d.time), ToString(d.code),
             "0", "0">>
      [] IsUDPData(d) ->
           <<ToString(CODE_UDPDATA), ToString(d.time), d.string, "0", "0">>

\* a _write_data that writes only while the recorder is recording
WriteFileWhileRecording(dsk, f, data_buffer) ==
    IF f = PyNone \/ ~is_recording THEN dsk
    ELSE [dsk EXCEPT ![f] = @ \o SeqMap(Row, data_buffer)]

\* lines 108-118: the file system after _write_data(data_buffer) with
\* self._file = f
WriteFile(dsk, f, data_buffer) ==
    IF f = PyNone THEN dsk
    ELSE [dsk EXCEPT ![f] = @ \o SeqMap(Row, data_buffer)]

\* a _write_data that counts the samples only while a file is open
WriteCounterIfFileOpen(cnt, data_buffer) ==
    IF file = PyNone THEN cnt
    ELSE [dev \in DOMAIN cnt |->
            cnt[dev] + Count(LAMBDA d : IsForceData(d) /\ d.device_id = dev,
                             data_buffer)]

\* lines 105-106: self.sample_counter after _write_data(data_buffer)
WriteCounter(cnt, data_buffer) ==
    [dev \in DOMAIN cnt |->
        cnt[dev] + Count(LAMBDA d : IsForceData(d) /\ d.device_id = dev,
                         data_buffer)]

\* the ForceData events of a buffer
Samples(data_buffer) == Filter(IsForceData, data_buffer)

\* history: the samples _write_data was given while no file was open
NotWritten(f, data_buffer) ==
    IF f = PyNone THEN Samples(data_buffer) ELSE <<>>

(***************************************************************************)
(* DataRecorder.process_udp_events                                         *)
(***************************************************************************)
\* lines 89-96: get_nowait() until the queue is empty; with self.udp = None
\* the first get_nowait() raises and the bare except ends the loop
UdpBuffer == IF udp.present THEN udp.receive_queue ELSE <<>>
UdpDrained == [udp EXCEPT !.receive_queue = <<>>]

\* a process_udp_events that flushes the pending soft triggers as well
ProcessUdpEventsAndTriggers ==
    /\ pc = "idle"
    /\ udp' = UdpDrained
    /\ disk' = WriteFile(disk, file, UdpBuffer \o soft_trigger)
    /\ soft_trigger' = <<>>
    /\ sample_counter' = WriteCounter(sample_counter, UdpBuffer)
    /\ unwritten' = unwritten \o NotWritten(file, UdpBuffer)
    /\ ret' = Return(UdpBuffer \o soft_trigger)
    /\ UNCHANGED <<force_sensor_settings, poll_udp_connection, pc, cont, k,
                   data, procs, is_recording, file, filename,
                   dirs, minute, now, produced, returned, discarded, nquit,
                   nudp, ntrig,
                   opened, unpolled, gui>>

ProcessUdpEvents ==
    /\ pc = "idle"
    /\ udp' = UdpDrained
    /\ disk' = WriteFile(disk, file, UdpBuffer)
    /\ sample_counter' = WriteCounter(sample_counter, UdpBuffer)
    /\ unwritten' = unwritten \o NotWritten(file, UdpBuffer)
    /\ ret' = Return(UdpBuffer)
    /\ UNCHANGED <<force_sensor_settings, poll_udp_connection, pc, cont, k,
                   data, procs, is_recording, file, filename, soft_trigger,
                   dirs, minute, now, produced, returned, discarded, nquit,
                   nudp, ntrig,
                   opened, unpolled, gui>>

(***************************************************************************)
(* DataRecorder.write_soft_trigger                                         *)
(***************************************************************************)
\* a write_soft_trigger that never reads the timer
TriggerTimeZero(time) == IF time = <<>> THEN 0 ELSE time[1]

\* lines 127-128: time is <<>> for None, <<t>> for a given time
TriggerTime(time) == IF time = <<>> THEN now ELSE time[1]

\* a write_soft_trigger that also writes the marker to the file at once
WriteSoftTriggerAtOnce(code, time) ==
    /\ pc = "idle"
    /\ soft_trigger' = Append(soft_trigger,
                              SoftTrigger(TriggerTime(time), code))
    /\ disk' = WriteFile(disk, file, <<SoftTrigger(TriggerTime(time), code)>>)
    /\ ntrig' = ntrig + 1
    /\ ret' = Return(<<>>)
    /\ UNCHANGED <<force_sensor_settings, poll_udp_connection, pc, cont, k,
                   data, procs, sample_counter, udp, is_recording, file,
                   filename, dirs, minute, now, produced, returned,
                   discarded, unwritten, nquit, nudp,
                   opened, unpolled, gui>>

WriteSoftTrigger(code, time) ==
    /\ pc = "idle"
    /\ soft_trigger' = Append(soft_trigger,
                              SoftTrigger(TriggerTime(time), code))
    /\ ntrig' = ntrig + 1
    /\ ret' = Return(<<>>)
    /\ UNCHANGED <<force_sensor_settings, poll_udp_connection, pc, cont, k,
                   data, procs, sample_counter, udp, is_recording, file,
                   filename, disk, dirs, minute, now, produced, returned,
                   discarded, unwritten, nquit, nudp,
                   opened, unpolled, gui>>

(***************************************************************************)
(* DataRecorder.pause_recording                                            *)
(***************************************************************************)
\* lines 160-162, on behalf of caller c
EnterPause(c) ==
    /\ is_recording' = FALSE
    /\ data' = <<>>
    /\ k' = 1
    /\ cont' = c
    /\ pc' = "pause"

\* a pause_recording that leaves _is_recording as it is
PauseRecordingStillRecording ==
    /\ pc = "idle"
    /\ data' = <<>>
    /\ k' = 1
    /\ cont' = "owner"
    /\ pc' = "pause"
    /\ UNCHANGED is_recording
    /\ UNCHANGED <<force_sensor_settings, poll_udp_connection, procs,
                   sample_counter, udp, file, filename, soft_trigger, disk,
                   dirs, minute, now, ret, produced, returned, discarded,
                   unwritten, nquit, nudp, ntrig,
                   opened, unpolled, gui>>

\* line 160; the sensor loop and the rest of the call follow in PauseDrain
\* and PauseFinish
PauseRecording ==
    /\ pc = "idle"
    /\ EnterPause("owner")
    /\ UNCHANGED <<force_sensor_settings, poll_udp_connection, procs,
                   sample_counter, udp, file, filename, soft_trigger, disk,
                   dirs, minute, now, ret, produced, returned, discarded,
                   unwritten, nquit, nudp, ntrig,
                   opened, unpolled, gui>>

FromBias == cont \in {"bias", "start"}

\* a sensor loop that writes each buffer but does not add it to `data`
PauseDrainNoExtend ==
    /\ pc = "pause"
    /\ k <= Len(procs)
    /\ LET buffer == procs[k].buffer
       IN /\ procs' = [procs EXCEPT ![k] = pause_polling_get_buffer(@)]
          /\ disk' = WriteFile(disk, file, buffer)
          /\ sample_counter' = WriteCounter(sample_counter, buffer)
          /\ unwritten' = unwritten \o NotWritten(file, buffer)
          /\ discarded' = IF FromBias THEN discarded \o Samples(buffer)
                          ELSE discarded
    /\ k' = k + 1
    /\ UNCHANGED <<force_sensor_settings, poll_udp_connection, pc, cont, udp,
                   is_recording, file, filename, soft_trigger, dirs, minute,
                   now, ret, produced, returned, nquit, nudp, ntrig, data,
                   opened, unpolled, gui>>

\* lines 164-167: one iteration of the loop over the sensor processes
PauseDrain ==
    /\ pc = "pause"
    /\ k <= Len(procs)
    /\ LET buffer == procs[k].buffer
       IN /\ procs' = [procs EXCEPT ![k] = pause_polling_get_buffer(@)]
          /\ disk' = WriteFile(disk, file, buffer)
          /\ sample_counter' = WriteCounter(sample_counter, buffer)
          /\ data' = data \o buffer
          /\ unwritten' = unwritten \o NotWritten(file, buffer)
          /\ discarded' = IF FromBias THEN discarded \o Samples(buffer)
                          ELSE discarded
    /\ k' = k + 1
    /\ UNCHANGED <<force_sensor_settings, poll_udp_connection, pc, cont, udp,
                   is_recording, file, filename, soft_trigger, dirs, minute,
                   now, ret, produced, returned, nquit, nudp, ntrig,
                   opened, unpolled, gui>>

\* an end of pause_recording that writes the soft triggers before the udp
\* events, and returns them after the udp events
PauseFinishTriggersFirst ==
    /\ pc = "pause"
    /\ k > Len(procs)
    /\ LET buffer == UdpBuffer
           result == (data \o buffer) \o soft_trigger
       IN /\ udp' = UdpDrained
          /\ disk' = WriteFile(WriteFile(disk, file, soft_trigger), file,
                               buffer)
          /\ sample_counter' =
                WriteCounter(WriteCounter(sample_counter, buffer),
                             soft_trigger)
          /\ unwritten' = (unwritten \o NotWritten(file, buffer))
                             \o NotWritten(file, soft_trigger)
          /\ soft_trigger' = <<>>
          /\ discarded' = IF FromBias
                          THEN (discarded \o Samples(buffer))
                                  \o Samples(soft_trigger)
                          ELSE discarded
          /\ IF cont = "owner"
             THEN /\ ret' = Return(result)
                  /\ returned' = returned \o Samples(result)
                  /\ pc' = "idle"
                  /\ data' = <<>>
             ELSE /\ pc' = IF FromBias THEN "bias_request" ELSE "quit_close"
                  /\ data' = IF FromBias THEN <<>> ELSE result
                  /\ UNCHANGED <<ret, returned>>
    /\ k' = 1
    /\ unpolled' = Filter(LAMBDA d : \E i \in 1..Len(procs) :
                                        d \in Range(procs[i].buffer),
                          unpolled)
    /\ UNCHANGED <<force_sensor_settings, poll_udp_connection, cont,
                   procs, is_recording, file, filename, dirs, minute, now,
                   produced, nquit, nudp, ntrig,
                   opened, gui>>

\* lines 169-177: the udp events, the soft triggers, and the return to the
\* caller: the owner, quit (lines 75-76) or determine_biases (lines 193-194),
\* which drops the buffer.  The locals k and data end with the call.
PauseFinish ==
    /\ pc = "pause"
    /\ k > Len(procs)
    /\ LET buffer == UdpBuffer
           result == (data \o buffer) \o soft_trigger
       IN /\ udp' = UdpDrained
          /\ disk' = WriteFile(WriteFile(disk, file, buffer), file,
                               soft_trigger)
          /\ sample_counter' =
                WriteCounter(WriteCounter(sample_counter, buffer),
                             soft_trigger)
          /\ unwritten' = (unwritten \o NotWritten(file, buffer))
                             \o NotWritten(file, soft_trigger)
          /\ soft_trigger' = <<>>
          /\ discarded' = IF FromBias
                          THEN (discarded \o Samples(buffer))
                                  \o Samples(soft_trigger)
                          ELSE discarded
          /\ IF cont = "owner"
             THEN /\ ret' = Return(result)
                  /\ returned' = returned \o Samples(result)
                  /\ pc' = "idle"
                  /\ data' = <<>>
             ELSE /\ pc' = IF FromBias THEN "bias_request" ELSE "quit_close"
                  /\ data' = IF FromBias THEN <<>> ELSE result
                  /\ UNCHANGED <<ret, returned>>
    /\ k' = 1
    /\ unpolled' = Filter(LAMBDA d : \E i \in 1..Len(procs) :
                                        d \in Range(procs[i].buffer),
                          unpolled)
    /\ UNCHANGED <<force_sensor_settings, poll_udp_connection, cont,
                   procs, is_recording, file, filename, dirs, minute, now,
                   produced, nquit, nudp, ntrig,
                   opened, gui>>

(***************************************************************************)
(* DataRecorder.start_recording and DataRecorder.determine_biases          *)
(***************************************************************************)
BiasMissing == \E i \in 1..Len(procs) : ~procs[i].event_bias_is_available

\* a start_recording that tells the workers to poll before it checks the
\* bias gates
StartPollingAndCheck ==
    /\ procs' = SeqMap(start_polling, procs)
    /\ IF BiasMissing
       THEN /\ ret' = Raise
            /\ UNCHANGED is_recording
       ELSE /\ is_recording' = TRUE
            /\ ret' = Return(<<>>)

\* lines 144-150
CheckAndStartPolling ==
    IF BiasMissing
    THEN /\ ret' = Raise
         /\ UNCHANGED <<procs, is_recording>>
    ELSE /\ procs' = SeqMap(start_polling, procs)
         /\ is_recording' = TRUE
         /\ ret' = Return(<<>>)

\* lines 141-150; with determine_bias the call goes through
\* determine_biases (pause, request, wait) first
StartRecording(determine_bias_arg) ==
    /\ pc = "idle"
    /\ IF determine_bias_arg
       THEN /\ EnterPause("start")
            /\ UNCHANGED <<procs, ret>>
       ELSE /\ CheckAndStartPolling
            /\ UNCHANGED <<pc, cont, k, data>>
    /\ UNCHANGED <<force_sensor_settings, poll_udp_connection,
                   sample_counter, udp, file, filename, soft_trigger, disk,
                   dirs, minute, now, produced, returned, discarded,
                   unwritten, nquit, nudp, ntrig,
                   opened, unpolled, gui>>

\* a determine_biases that asks for the biases without pausing first
DetermineBiasesNoPause ==
    /\ pc = "idle"
    /\ pc' = "bias_request"
    /\ cont' = "bias"
    /\ UNCHANGED <<force_sensor_settings, poll_udp_connection, procs,
                   sample_counter, udp, file, filename, soft_trigger, disk,
                   dirs, minute, now, ret, produced, returned, discarded,
                   unwritten, nquit, nudp, ntrig, is_recording, data, k,
                   opened, unpolled, gui>>

\* line 193
DetermineBiases ==
    /\ pc = "idle"
    /\ EnterPause("bias")
    /\ UNCHANGED <<force_sensor_settings, poll_udp_connection, procs,
                   sample_counter, udp, file, filename, soft_trigger, disk,
                   dirs, minute, now, ret, produced, returned, discarded,
                   unwritten, nquit, nudp, ntrig,
                   opened, unpolled, gui>>

\* lines 194-195
BiasRequest ==
    /\ pc = "bias_request"
    /\ procs' = SeqMap(determine_bias, procs)
    /\ pc' = "bias_wait"
    /\ UNCHANGED <<force_sensor_settings, poll_udp_connection, cont, k, data,
                   sample_counter, udp, is_recording, file, filename,
                   soft_trigger, disk, dirs, minute, now, ret, produced,
                   returned, discarded, unwritten, nquit, nudp, ntrig,
                   opened, unpolled, gui>>

\* line 196: wait() on every gate in turn; a gate that is set stays set, so
\* the waits are over exactly when all gates are set.  Then determine_biases
\* returns, to the owner or into start_recording (lines 144-150).
BiasWait ==
    /\ pc = "bias_wait"
    /\ ~BiasMissing
    /\ IF cont = "start"
       THEN CheckAndStartPolling
       ELSE /\ ret' = Return(<<>>)
            /\ UNCHANGED <<procs, is_recording>>
    /\ pc' = "idle"
    /\ cont' = "owner"
    /\ UNCHANGED <<force_sensor_settings, poll_udp_connection, k, data,
                   sample_counter, udp, file, filename, soft_trigger, disk,
                   dirs, minute, now, produced, returned, discarded,
                   unwritten, nquit, nudp, ntrig,
                   opened, unpolled, gui>>

(***************************************************************************)
(* DataRecorder.close_data_file and DataRecorder.open_data_file            *)
(***************************************************************************)
CloseDataFile ==
    /\ pc = "idle"
    /\ file' = PyNone
    /\ ret' = Return(<<>>)
    /\ UNCHANGED <<force_sensor_settings, poll_udp_connection, pc, cont, k,
                   data, procs, sample_counter, udp, is_recording, filename,
                   soft_trigger, disk, dirs, minute, now, produced, returned,
                   discarded, unwritten, nquit, nudp, ntrig,
                   opened, unpolled, gui>>

Path(directory, name) == directory \o "/" \o name

\* os.path.isfile
IsFile(path) == path \in DOMAIN disk

\* lines 242-249: the name tried with counter cnt
NameFor(base, cnt, time_stamp_filename, suffix) ==
    LET flname == IF cnt > 0 THEN base \o "_" \o ToString(cnt) ELSE base
    IN IF time_stamp_filename
       THEN flname \o "_" \o minute \o suffix
       ELSE flname \o suffix

\* a counter loop that looks for the name without its ending
RECURSIVE FreeCounterNoSuffix(_, _, _, _, _)
FreeCounterNoSuffix(directory, base, cnt, time_stamp_filename, suffix) ==
    IF IsFile(Path(directory, NameFor(base, cnt, time_stamp_filename, "")))
    THEN FreeCounterNoSuffix(directory, base, cnt + 1, time_stamp_filename,
                             suffix)
    ELSE cnt

\* lines 240-255: the first counter whose name is not a file
RECURSIVE FreeCounter(_, _, _, _, _)
FreeCounter(directory, base, cnt, time_stamp_filename, suffix) ==
    IF IsFile(Path(directory, NameFor(base, cnt, time_stamp_filename, suffix)))
    THEN FreeCounter(directory, base, cnt + 1, time_stamp_filename, suffix)
    ELSE cnt

\* lines 262-265
Header(varnames, comment_line) ==
    (IF Len(comment_line) > 0 THEN << <<"#" \o comment_line>> >> ELSE <<>>)
    \o (IF varnames
        THEN << <<"device_tag", " time", " Fx", " Fy", " Fz">> >>
        ELSE <<>>)

OpenDataFile(name_arg, directory, time_stamp_filename, varnames, comment_line, zipped) ==
    /\ pc = "idle"
    /\ LET suffix == IF zipped THEN ".gz" ELSE ""
           base == IF name_arg = PyNone \/ Len(name_arg) = 0
                   THEN "daq_recording" ELSE name_arg
           cnt == FreeCounter(directory, base, 0, time_stamp_filename,
                              suffix)
           name == NameFor(base, cnt, time_stamp_filename, suffix)
       IN /\ dirs' = dirs \cup {directory}
          /\ filename' = name
          /\ file' = Path(directory, name)
          /\ disk' = (Path(directory, name) :> Header(varnames, comment_line))
                        @@ disk
          /\ ret' = Return(<<name>>)
          /\ opened' = Append(opened,
                [name_arg |-> name_arg, directory |-> directory,
                 time_stamp_filename |-> time_stamp_filename,
                 zipped |-> zipped, minute |-> minute,
                 before |-> DOMAIN disk, result |-> name])
    /\ UNCHANGED <<force_sensor_settings, poll_udp_connection, pc, cont, k,
                   data, procs, sample_counter, udp, is_recording,
                   soft_trigger, minute, now, produced, returned, discarded,
                   unwritten, nquit, nudp, ntrig, unpolled, gui>>

(***************************************************************************)
(* DataRecorder.quit, called by the owner or by the atexit hook (line 58)  *)
(***************************************************************************)
\* a quit that closes the file and stops the workers without pausing
QuitNoPause ==
    /\ pc = "idle"
    /\ pc' = "quit_close"
    /\ cont' = "quit"
    /\ data' = <<>>
    /\ UNCHANGED <<force_sensor_settings, poll_udp_connection, procs,
                   sample_counter, udp, file, filename, soft_trigger, disk,
                   dirs, minute, now, ret, produced, returned, discarded,
                   unwritten, nquit, nudp, ntrig, is_recording, k,
                   opened, unpolled, gui>>

\* line 75
Quit ==
    /\ pc = "idle"
    /\ EnterPause("quit")
    /\ UNCHANGED <<force_sensor_settings, poll_udp_connection, procs,
                   sample_counter, udp, file, filename, soft_trigger, disk,
                   dirs, minute, now, ret, produced, returned, discarded,
                   unwritten, nquit, nudp, ntrig,
                   opened, unpolled, gui>>

\* the process ends: the hook registered at line 58 runs quit()
ProcessExit ==
    /\ pc = "idle"
    /\ EnterPause("exit")
    /\ UNCHANGED <<force_sensor_settings, poll_udp_connection, procs,
                   sample_counter, udp, file, filename, soft_trigger, disk,
                   dirs, minute, now, ret, produced, returned, discarded,
                   unwritten, nquit, nudp, ntrig,
                   opened, unpolled, gui>>

\* lines 76-79
QuitClose ==
    /\ pc = "quit_close"
    /\ file' = PyNone
    /\ udp' = IF udp.present THEN [udp EXCEPT !.running = FALSE] ELSE udp
    /\ pc' = "quit_stop"
    /\ UNCHANGED <<force_sensor_settings, poll_udp_connection, cont, k, data,
                   procs, sample_counter, is_recording, filename,
                   soft_trigger, disk, dirs, minute, now, ret, produced,
                   returned, discarded, unwritten, nquit, nudp, ntrig,
                   opened, unpolled, gui>>

\* lines 82-85
QuitStop ==
    /\ pc = "quit_stop"
    /\ procs' = SeqMap(stop, procs)
    /\ ret' = Return(data)
    /\ returned' = returned \o Samples(data)
    /\ nquit' = nquit + 1
    /\ pc' = IF cont = "exit" THEN "exited" ELSE "idle"
    /\ data' = <<>>
    /\ cont' = "owner"
    /\ UNCHANGED <<force_sensor_settings, poll_udp_connection, k,
                   sample_counter, udp, is_recording, file, filename,
                   soft_trigger, disk, dirs, minute, now, produced,
                   discarded, unwritten, nudp, ntrig,
                   opened, unpolled, gui>>

(***************************************************************************)
(* The concurrent processes and the environment                            *)
(***************************************************************************)
\* the sampling loop of sensor process i: one reading is time-stamped and
\* appended to the buffer, whether or not the worker is polling
WorkerSample(i) ==
    /\ pc # "new"
    /\ i \in 1..Len(procs)
    /\ procs[i].running
    /\ ~procs[i].biasing
    /\ now' = now + 1
    /\ LET d == ForceData(procs[i].device_id, now')
       IN /\ procs' = [procs EXCEPT ![i].buffer = Append(@, d)]
          /\ produced' = Append(produced, d)
          /\ unpolled' = IF procs[i].polling THEN unpolled
                         ELSE Append(unpolled, d)
    /\ UNCHANGED <<force_sensor_settings, poll_udp_connection, pc, cont, k,
                   data, sample_counter, udp, is_recording, file, filename,
                   soft_trigger, disk, dirs, minute, ret, returned,
                   discarded, unwritten, nquit, nudp, ntrig,
                   opened, gui>>

\* sensor process i has averaged its n_samples readings: the gate is set
WorkerBias(i) ==
    /\ i \in 1..Len(procs)
    /\ procs[i].running
    /\ procs[i].biasing
    /\ procs' = [procs EXCEPT ![i].biasing = FALSE,
                              ![i].event_bias_is_available = TRUE]
    /\ UNCHANGED <<force_sensor_settings, poll_udp_connection, pc, cont, k,
                   data, sample_counter, udp, is_recording, file, filename,
                   soft_trigger, disk, dirs, minute, now, ret, produced,
                   returned, discarded, unwritten, nquit, nudp, ntrig,
                   opened, unpolled, gui>>

\* the driver is unavailable: the gate is left as it is
WorkerBiasFail(i) ==
    /\ i \in 1..Len(procs)
    /\ procs[i].running
    /\ procs[i].biasing
    /\ procs' = [procs EXCEPT ![i].biasing = FALSE]
    /\ UNCHANGED <<force_sensor_settings, poll_udp_connection, pc, cont, k,
                   data, sample_counter, udp, is_recording, file, filename,
                   soft_trigger, disk, dirs, minute, now, ret, produced,
                   returned, discarded, unwritten, nquit, nudp, ntrig,
                   opened, unpolled, gui>>

\* the UDP process receives a message and puts it on receive_queue
UdpReceive(string) ==
    /\ pc # "new"
    /\ udp.present
    /\ udp.running
    /\ udp' = [udp EXCEPT !.receive_queue = Append(@, UDPData(now, string))]
    /\ nudp' = nudp + 1
    /\ UNCHANGED <<force_sensor_settings, poll_udp_connection, pc, cont, k,
                   data, procs, sample_counter, is_recording, file, filename,
                   soft_trigger, disk, dirs, minute, now, ret, produced,
                   returned, discarded, unwritten, nquit, ntrig,
                   opened, unpolled, gui>>

\* the wall clock passes a minute boundary
MinuteTick ==
    /\ minute = "202601011200"
    /\ minute' = "202601011201"
    /\ UNCHANGED <<force_sensor_settings, poll_udp_connection, pc, cont, k,
                   data, procs, sample_counter, udp, is_recording, file,
                   filename, soft_trigger, disk, dirs, now, ret, produced,
                   returned, discarded, unwritten, nquit, nudp, ntrig,
                   opened, unpolled, gui>>

(***************************************************************************)
(* gui.py: start and record_data, the owner of the recorder in the         *)
(* application                                                             *)
(***************************************************************************)
\* the verbs of the remote control: strings that begin with COMMAND_STR,
\* none the beginning of another
RcCmd ==
    [COMMAND_STR   |-> "$cmd",
     FEEDBACK      |-> "$cmd:feedback:",
     START         |-> "$cmd:start",
     PAUSE         |-> "$cmd:pause",
     QUIT          |-> "$cmd:quit",
     THRESHOLDS    |-> "$cmd:thresholds:",
     GET_FX        |-> "$cmd:get_fx",
     GET_FY        |-> "$cmd:get_fy",
     GET_FZ        |-> "$cmd:get_fz",
     GET_TX        |-> "$cmd:get_tx",
     GET_TY        |-> "$cmd:get_ty",
     GET_TZ        |-> "$cmd:get_tz",
     PICKLED_VALUE |-> "$cmd:value:",
     FILENAME      |-> "$cmd:filename:"]

\* str.startswith, string[n:] and str.replace
startswith(string, prefix) ==
    Len(prefix) <= Len(string) /\ SubSeq(string, 1, Len(prefix)) = prefix

SliceFrom(string, n) == SubSeq(string, n + 1, Len(string))

RECURSIVE replace(_, _, _)
replace(string, old, new) ==
    IF string = "" THEN ""
    ELSE IF startswith(string, old)
         THEN new \o replace(SliceFrom(string, Len(old)), old, new)
         ELSE SubSeq(string, 1, 1)
                \o replace(SliceFrom(string, 1), old, new)

\* line 129: eval of the texts the payloads of the model carry; every other
\* text of the model is no Python expression, or names nothing, and raises
eval(text) ==
    CASE text = "[10]"  -> [raised |-> FALSE, is_list |-> TRUE,
                            value |-> <<10>>]
      [] text = "[]"    -> [raised |-> FALSE, is_list |-> TRUE,
                            value |-> <<>>]
      [] text = "10"    -> [raised |-> FALSE, is_list |-> FALSE,
                            value |-> <<>>]
      [] OTHER          -> [raised |-> TRUE, is_list |-> FALSE,
                            value |-> <<>>]

\* lines 127-135: history.level_thresholds after a thresholds command
Thresholds(string) ==
    LET tmp == eval(SliceFrom(string, Len(RcCmd.THRESHOLDS)))
    IN IF ~tmp.raised /\ tmp.is_list THEN tmp.value ELSE <<>>

\* line 90: sensor_process is the first sensor process; its sample count
\* and the latest reading of an axis, named by the axis and the time it was
\* read at
sample_cnt ==
    Len(Filter(LAMBDA d : d.device_id = procs[1].device_id, produced))

Reading(axis) ==
    LET own == Filter(LAMBDA d : d.device_id = procs[1].device_id, produced)
    IN axis \o "@" \o
         ToString(IF own = <<>> THEN 0 ELSE own[Len(own)].time)

\* cPickle.dumps
dumps(value) == "pickle(" \o value \o ")"

\* lines 137-153: the reply record_data puts on the send queue for a query
QueryReply(string) ==
    RcCmd.PICKLED_VALUE \o dumps(
        IF string = RcCmd.GET_FX THEN Reading("Fx")
        ELSE IF string = RcCmd.GET_FY THEN Reading("Fy")
        ELSE IF string = RcCmd.GET_FZ THEN Reading("Fz")
        ELSE IF string = RcCmd.GET_TX THEN Reading("Fx")
        ELSE IF string = RcCmd.GET_TY THEN Reading("Fy")
        ELSE Reading("Fz"))

Queries ==
    {RcCmd.GET_FX, RcCmd.GET_FY, RcCmd.GET_FZ,
     RcCmd.GET_TX, RcCmd.GET_TY, RcCmd.GET_TZ}

\* lines 116-156: the locals of record_data and the send queue after one
\* udp_event
Dispatch(st, string) ==
    IF st.gui.remote_control /\ startswith(string, RcCmd.COMMAND_STR)
    THEN LET g == [st.gui EXCEPT !.set_marker = FALSE]
         IN IF string = RcCmd.START
            THEN [st EXCEPT !.gui = [g EXCEPT !.pause_recording = FALSE]]
            ELSE IF string = RcCmd.PAUSE
            THEN [st EXCEPT !.gui = [g EXCEPT !.pause_recording = TRUE]]
            ELSE IF string = RcCmd.QUIT
            THEN [st EXCEPT !.gui = [g EXCEPT !.quit_recording = TRUE]]
            ELSE IF startswith(string, RcCmd.THRESHOLDS)
            THEN [st EXCEPT !.gui = [g EXCEPT !.level_thresholds =
                                                 Thresholds(string)]]
            ELSE IF string \in Queries
            THEN [gui |-> g,
                  send_queue |-> Append(st.send_queue, QueryReply(string))]
            ELSE [st EXCEPT !.gui = g]
    ELSE [st EXCEPT !.gui.set_marker = TRUE]

\* lines 113-114: the events are dispatched in the order of the buffer
RECURSIVE DispatchAll(_, _)
DispatchAll(st, events) ==
    IF events = <<>> THEN st
    ELSE DispatchAll(Dispatch(st, Head(events).string), Tail(events))

\* lines 102-109: the keyboard
Keys == {"none", "q", "v", "p"}

Keyboard(g, key) ==
    [g EXCEPT !.quit_recording = @ \/ key = "q",
              !.plot_indicator = IF key = "v" THEN ~@ ELSE @,
              !.pause_recording = IF key = "p" THEN ~@ ELSE @]

\* the locals before start runs: lines 288, 66-68, 94 and 333
GuiStart ==
    [at |-> "initialize",
     remote_control |-> FALSE,
     ask_filename |-> TRUE,
     filename |-> "output.csv",
     pause_recording |-> TRUE,
     last_recording_status |-> <<>>,
     set_marker |-> FALSE,
     plot_indicator |-> TRUE,
     quit_recording |-> FALSE,
     level_thresholds |-> <<>>,
     last_plotted_smpl |-> 0]

\* lines 270 and 293: the caller chooses ask_filename, and the caller or the
\* user the remote control
Initialize ==
    /\ gui.at = "initialize"
    /\ \E remote_control \in BOOLEAN, ask_filename \in BOOLEAN :
          gui' = [gui EXCEPT !.remote_control = remote_control,
                             !.ask_filename = ask_filename,
                             !.at = "recorder"]
    /\ UNCHANGED <<force_sensor_settings, poll_udp_connection, pc, cont, k,
                   data, procs, sample_counter, udp, is_recording, file,
                   filename, soft_trigger, disk, dirs, minute, now, ret,
                   produced, returned, discarded, unwritten, nquit, nudp,
                   ntrig, opened, unpolled>>

\* determine_biases (line 301) has returned
BiasesDetermined == gui.at = "recorder" /\ pc = "idle" /\ ~BiasMissing

\* lines 309-321, one turn of the loop: start takes the next event off the
\* receive queue itself and drops it unless it names the file
WaitForFilename ==
    /\ BiasesDetermined
    /\ gui.remote_control
    /\ gui.ask_filename
    /\ IF udp.receive_queue = <<>>
       THEN UNCHANGED <<udp, gui>>
       ELSE LET x == Head(udp.receive_queue).string
            IN /\ udp' = [udp EXCEPT !.receive_queue = Tail(@)]
               /\ gui' = IF startswith(x, RcCmd.FILENAME)
                         THEN [gui EXCEPT
                                 !.filename = replace(x, RcCmd.FILENAME, ""),
                                 !.at = "open"]
                         ELSE gui
    /\ UNCHANGED <<force_sensor_settings, poll_udp_connection, pc, cont, k,
                   data, procs, sample_counter, is_recording, file,
                   filename, soft_trigger, disk, dirs, minute, now, ret,
                   produced, returned, discarded, unwritten, nquit, nudp,
                   ntrig, opened, unpolled>>

\* lines 323-326: the user types the name
TypedNames == {"run", "my run"}

AskFilename ==
    /\ BiasesDetermined
    /\ ~gui.remote_control
    /\ gui.ask_filename
    /\ \E typed \in TypedNames :
          gui' = [gui EXCEPT !.filename = replace(typed, " ", "_"),
                             !.at = "open"]
    /\ UNCHANGED <<force_sensor_settings, poll_udp_connection, pc, cont, k,
                   data, procs, sample_counter, udp, is_recording, file,
                   filename, soft_trigger, disk, dirs, minute, now, ret,
                   produced, returned, discarded, unwritten, nquit, nudp,
                   ntrig, opened, unpolled>>

\* lines 309 and 323: start does not ask for a name and keeps "output.csv"
KeepFilename ==
    /\ BiasesDetermined
    /\ ~gui.ask_filename
    /\ gui' = [gui EXCEPT !.at = "open"]
    /\ UNCHANGED <<force_sensor_settings, poll_udp_connection, pc, cont, k,
                   data, procs, sample_counter, udp, is_recording, file,
                   filename, soft_trigger, disk, dirs, minute, now, ret,
                   produced, returned, discarded, unwritten, nquit, nudp,
                   ntrig, opened, unpolled>>

\* line 95: the head of the loop of record_data, reached from
\* open_data_file (line 329) or from the end of the loop's body
AtLoop == gui.at = "loop" \/ (gui.at = "open" /\ Len(opened) > 0)

\* lines 95-157: the keyboard, process_udp_events and the dispatch of the
\* events it returns
RecordDataUdp ==
    /\ AtLoop
    /\ pc = "idle"
    /\ ~gui.quit_recording
    /\ \E key \in Keys :
          LET st == DispatchAll([gui |-> Keyboard(gui, key),
                                 send_queue |-> udp.send_queue], UdpBuffer)
          IN /\ gui' = [st.gui EXCEPT !.at = "status"]
             /\ udp' = [UdpDrained EXCEPT !.send_queue = st.send_queue]
    /\ disk' = WriteFile(disk, file, UdpBuffer)
    /\ sample_counter' = WriteCounter(sample_counter, UdpBuffer)
    /\ unwritten' = unwritten \o NotWritten(file, UdpBuffer)
    /\ ret' = Return(UdpBuffer)
    /\ UNCHANGED <<force_sensor_settings, poll_udp_connection, pc, cont, k,
                   data, procs, is_recording, file, filename, soft_trigger,
                   dirs, minute, now, produced, returned, discarded, nquit,
                   nudp, ntrig, opened, unpolled>>

\* lines 160-173: the recording follows pause_recording; the call of
\* pause_recording returns in RecordDataPaused
RecordDataStatus ==
    /\ gui.at = "status"
    /\ pc = "idle"
    /\ IF <<gui.pause_recording>> = gui.last_recording_status
       THEN /\ gui' = [gui EXCEPT !.at = "sample"]
            /\ UNCHANGED <<pc, cont, k, data, procs, is_recording, ret, udp>>
       ELSE IF gui.pause_recording
       THEN /\ EnterPause("owner")
            /\ gui' = [gui EXCEPT !.last_recording_status = <<TRUE>>,
                                  !.at = "paused"]
            /\ UNCHANGED <<procs, ret, udp>>
       ELSE /\ CheckAndStartPolling
            /\ gui' = [gui EXCEPT !.last_recording_status = <<FALSE>>,
                                  !.at = IF BiasMissing THEN "raised"
                                         ELSE "sample"]
            /\ udp' = IF gui.remote_control /\ ~BiasMissing
                      THEN [udp EXCEPT !.send_queue =
                              Append(@, RcCmd.FEEDBACK \o "started")]
                      ELSE udp
            /\ UNCHANGED <<pc, cont, k, data>>
    /\ UNCHANGED <<force_sensor_settings, poll_udp_connection,
                   sample_counter, file, filename, soft_trigger, disk, dirs,
                   minute, now, produced, returned, discarded, unwritten,
                   nquit, nudp, ntrig, opened, unpolled>>

\* a record_data that reports the pause to the peer twice
RecordDataPausedTwice ==
    /\ gui.at = "paused"
    /\ pc = "idle"
    /\ gui' = [gui EXCEPT !.at = "sample"]
    /\ udp' = IF gui.remote_control
              THEN [udp EXCEPT !.send_queue =
                      Append(Append(@, RcCmd.FEEDBACK \o "paused"),
                             RcCmd.FEEDBACK \o "paused")]
              ELSE udp
    /\ UNCHANGED <<force_sensor_settings, poll_udp_connection, pc, cont, k,
                   data, procs, sample_counter, is_recording, file,
                   filename, soft_trigger, disk, dirs, minute, now, ret,
                   produced, returned, discarded, unwritten, nquit, nudp,
                   ntrig, opened, unpolled>>

\* lines 165-167: pause_recording has returned
RecordDataPaused ==
    /\ gui.at = "paused"
    /\ pc = "idle"
    /\ gui' = [gui EXCEPT !.at = "sample"]
    /\ udp' = IF gui.remote_control
              THEN [udp EXCEPT !.send_queue =
                      Append(@, RcCmd.FEEDBACK \o "paused")]
              ELSE udp
    /\ UNCHANGED <<force_sensor_settings, poll_udp_connection, pc, cont, k,
                   data, procs, sample_counter, is_recording, file,
                   filename, soft_trigger, disk, dirs, minute, now, ret,
                   produced, returned, discarded, unwritten, nquit, nudp,
                   ntrig, opened, unpolled>>

\* lines 175-193 and 95: a new sample is taken to the history and the
\* plotter; with thresholds set, a level above 0 is sent to the peer.  The
\* level is the history's and is any of Levels.
Levels == {0, 1}

RecordDataSample ==
    /\ gui.at = "sample"
    /\ \E level \in Levels :
          /\ udp' = IF gui.last_plotted_smpl < sample_cnt
                       /\ Len(gui.level_thresholds) > 0
                       /\ level > 0
                    THEN [udp EXCEPT !.send_queue =
                            Append(@, RcCmd.PICKLED_VALUE
                                        \o dumps(ToString(level)))]
                    ELSE udp
    /\ gui' = [gui EXCEPT
                 !.at = IF gui.quit_recording THEN "end" ELSE "loop",
                 !.set_marker =
                     IF gui.last_plotted_smpl < sample_cnt
                        /\ ~gui.plot_indicator
                     THEN FALSE ELSE @,
                 !.last_plotted_smpl =
                     IF gui.last_plotted_smpl < sample_cnt
                        /\ ~gui.plot_indicator
                     THEN sample_cnt ELSE @]
    /\ UNCHANGED <<force_sensor_settings, poll_udp_connection, pc, cont, k,
                   data, procs, sample_counter, is_recording, file,
                   filename, soft_trigger, disk, dirs, minute, now, ret,
                   produced, returned, discarded, unwritten, nquit, nudp,
                   ntrig, opened, unpolled>>

\* lines 266-268: the loop has ended; the pause_recording call returns to
\* start, whose next call is quit (line 336)
RecordDataEnd ==
    /\ gui.at = "end"
    /\ pc = "idle"
    /\ EnterPause("owner")
    /\ gui' = [gui EXCEPT !.at = "quit"]
    /\ UNCHANGED <<force_sensor_settings, poll_udp_connection, procs,
                   sample_counter, udp, file, filename, soft_trigger, disk,
                   dirs, minute, now, ret, produced, returned, discarded,
                   unwritten, nquit, nudp, ntrig, opened, unpolled>>

(***************************************************************************)
(* The state before construction, and the specifications                   *)
(***************************************************************************)
NoFiles == [p \in {} |-> <<>>]

InitWith(arg, poll, files) ==
    /\ force_sensor_settings = arg
    /\ poll_udp_connection = poll
    /\ pc = "new"
    /\ cont = "owner"
    /\ k = 1
    /\ data = <<>>
    /\ procs = <<>>
    /\ sample_counter = <<>>
    /\ udp = NoUdp
    /\ is_recording = FALSE
    /\ file = PyNone
    /\ filename = PyNone
    /\ soft_trigger = <<>>
    /\ disk = files
    /\ dirs = IF DOMAIN files = {} THEN {} ELSE {"data"}
    /\ minute = "202601011200"
    /\ now = 0
    /\ ret = Return(<<>>)
    /\ produced = <<>>
    /\ returned = <<>>
    /\ discarded = <<>>
    /\ unwritten = <<>>
    /\ nquit = 0
    /\ nudp = 0
    /\ ntrig = 0
    /\ opened = <<>>
    /\ unpolled = <<>>
    /\ gui = GuiStart

AsList(value) == [is_list |-> TRUE, value |-> value]
AsSingle(value) == [is_list |-> FALSE, value |-> value]

(***************************************************************************)
(* Spec: the recorder of two sensors with the UDP connection, its owner    *)
(* and its sensor processes.  The owner determines the biases, starts and  *)
(* pauses the recording, opens and closes data files, and ends with one   *)
(* quit(); the process may end between any two calls, and the exit hook    *)
(* then runs quit() (again).                                               *)
(***************************************************************************)
Init ==
    InitWith(AsList(<<SensorSettings(1), SensorSettings(2)>>), TRUE, NoFiles)

\* the owner's calls before its first quit()
OwnerCalls ==
    \/ StartRecording(FALSE)
    \/ PauseRecording
    \/ DetermineBiases
    \/ Len(opened) < MaxOpens
          /\ OpenDataFile("run", "data", FALSE, TRUE, "", TRUE)
    \/ CloseDataFile

Next ==
    \/ Construct
    \/ nquit = 0 /\ OwnerCalls
    \/ PauseDrain
    \/ PauseFinish
    \/ BiasRequest
    \/ BiasWait
    \/ nquit = 0 /\ Quit
    \/ ProcessExit
    \/ QuitClose
    \/ QuitStop
    \/ \E i \in 1..Len(procs) : now < MaxSamples /\ WorkerSample(i)
    \/ \E i \in 1..Len(procs) : WorkerBias(i)

Spec == Init /\ [][Next]_vars

(***************************************************************************)
(* SpecTrig: the recorder of gui.start(), one sensor and the UDP           *)
(* connection, whose owner sets soft triggers (with and without a time of  *)
(* its own) between pauses, bias determinations, file opens and closes,    *)
(* and ends with quit() or with the exit hook.                             *)
(***************************************************************************)
InitTrig == InitWith(AsList(<<SensorSettings(1)>>), TRUE, NoFiles)

TrigCalls ==
    \/ \E time \in {<<>>, <<0>>} : ntrig < TrigTriggers
          /\ WriteSoftTrigger(7, time)
    \/ PauseRecording
    \/ DetermineBiases
    \/ Len(opened) < TrigOpens
          /\ OpenDataFile("run", "data", FALSE, TRUE, "", TRUE)
    \/ CloseDataFile

NextTrig ==
    \/ Construct
    \/ nquit = 0 /\ TrigCalls
    \/ PauseDrain
    \/ PauseFinish
    \/ BiasRequest
    \/ BiasWait
    \/ nquit = 0 /\ Quit
    \/ ProcessExit
    \/ QuitClose
    \/ QuitStop
    \/ \E i \in 1..Len(procs) : now < TrigSamples /\ WorkerSample(i)
    \/ \E i \in 1..Len(procs) : WorkerBias(i)

SpecTrig == InitTrig /\ [][NextTrig]_vars

(***************************************************************************)
(* SpecUdp: one sensor, with and without the UDP connection.  The owner    *)
(* polls the UDP events between pauses, soft triggers, file opens and      *)
(* closes, while the sensor process samples and messages arrive.           *)
(***************************************************************************)
InitUdp ==
    \E poll \in BOOLEAN :
        InitWith(AsList(<<SensorSettings(1)>>), poll, NoFiles)

UdpCalls ==
    \/ ProcessUdpEvents
    \/ ntrig < UdpTriggers /\ WriteSoftTrigger(7, <<>>)
    \/ PauseRecording
    \/ Len(opened) < UdpOpens
          /\ OpenDataFile("run", "data", FALSE, TRUE, "", TRUE)
    \/ CloseDataFile

NextUdp ==
    \/ Construct
    \/ UdpCalls
    \/ PauseDrain
    \/ PauseFinish
    \/ \E i \in 1..Len(procs) : now < UdpSamples /\ WorkerSample(i)
    \/ nudp < UdpMessages /\ UdpReceive("cmd")

SpecUdp == InitUdp /\ [][NextUdp]_vars

(***************************************************************************)
(* SpecBias: two sensors.  The owner determines the biases, by             *)
(* determine_biases or by start_recording(determine_bias=True), starts     *)
(* and pauses the recording; a bias determination may fail and leave the   *)
(* gate unset, and the owner then waits for ever.                          *)
(***************************************************************************)
InitBias ==
    InitWith(AsList(<<SensorSettings(1), SensorSettings(2)>>), FALSE, NoFiles)

NextBias ==
    \/ Construct
    \/ \E determine_bias_arg \in BOOLEAN : StartRecording(determine_bias_arg)
    \/ PauseRecording
    \/ DetermineBiases
    \/ PauseDrain
    \/ PauseFinish
    \/ BiasRequest
    \/ BiasWait
    \/ \E i \in 1..Len(procs) : now < BiasSamples /\ WorkerSample(i)
    \/ \E i \in 1..Len(procs) : WorkerBias(i)
    \/ \E i \in 1..Len(procs) : WorkerBiasFail(i)

SpecBias == InitBias /\ [][NextBias]_vars

(***************************************************************************)
(* SpecFiles: the data files.  The directory holds any of three files      *)
(* left by earlier sessions; the owner opens data files under the given    *)
(* or the default name, zipped or not, time-stamped or not, with or        *)
(* without the header lines, and closes them, while the wall clock may     *)
(* pass a minute boundary.                                                 *)
(***************************************************************************)
OldFiles == {"data/run.gz", "data/run_1.gz", "data/run"}

InitFiles ==
    \E old \in SUBSET OldFiles :
        InitWith(AsList(<<SensorSettings(1)>>), FALSE,
                 [p \in old |-> << <<"old">> >>])

NextFiles ==
    \/ Construct
    \/ \E name_arg \in {"run", "", PyNone},
          time_stamp_filename \in BOOLEAN, zipped \in BOOLEAN,
          head \in {<<TRUE, "">>, <<FALSE, "c">>} :
           /\ Len(opened) < FilesOpens
           /\ OpenDataFile(name_arg, "data", time_stamp_filename, head[1],
                           head[2], zipped)
    \/ CloseDataFile
    \/ MinuteTick

SpecFiles == InitFiles /\ [][NextFiles]_vars

(***************************************************************************)
(* SpecCtor: the construction.  The recorder is constructed from one       *)
(* settings object or from a list of settings, which may hold the same     *)
(* device twice and objects that are no SensorSettings, with or without    *)
(* the UDP connection; the sensor processes it started then sample.        *)
(***************************************************************************)
SettingsEntries == {SensorSettings(1), SensorSettings(2), NotSettings}

InitCtor ==
    \E arg \in {AsList(l) : l \in UNION {[1..n -> SettingsEntries] :
                                             n \in 0..CtorLen}}
                \cup {AsSingle(fs) : fs \in SettingsEntries},
       poll \in BOOLEAN :
        InitWith(arg, poll, NoFiles)

NextCtor ==
    \/ Construct
    \/ \E i \in 1..Len(procs) : now < CtorSamples /\ WorkerSample(i)

SpecCtor == InitCtor /\ [][NextCtor]_vars

(***************************************************************************)
(* SpecDrain: all three sources of events and the data file.  Two sensors  *)
(* and the UDP connection; the owner pauses, polls the UDP events, sets    *)
(* soft triggers, opens and closes a data file and ends with quit(), or    *)
(* the process ends and the exit hook runs quit(), while the sensor        *)
(* processes sample and network messages arrive.                           *)
(***************************************************************************)
\* the payload of the n-th network message
Message(n) == "cmd" \o ToString(n)

\* the events of the run so far: samples, messages and soft triggers
Events == now + nudp + ntrig

InitDrain ==
    InitWith(AsList(<<SensorSettings(1), SensorSettings(2)>>), TRUE, NoFiles)

DrainCalls ==
    \/ PauseRecording
    \/ ProcessUdpEvents
    \/ Events < DrainEvents /\ WriteSoftTrigger(7, <<>>)
    \/ Len(opened) < DrainOpens
          /\ OpenDataFile("run", "data", FALSE, FALSE, "", FALSE)
    \/ CloseDataFile

NextDrain ==
    \/ Construct
    \/ nquit = 0 /\ DrainCalls
    \/ PauseDrain
    \/ PauseFinish
    \/ nquit = 0 /\ Quit
    \/ ProcessExit
    \/ QuitClose
    \/ QuitStop
    \/ \E i \in 1..Len(procs) : Events < DrainEvents /\ WorkerSample(i)
    \/ Events < DrainEvents /\ UdpReceive(Message(nudp + 1))

SpecDrain == InitDrain /\ [][NextDrain]_vars

(***************************************************************************)
(* SpecPause: the pauses of a recording.  Two sensors and the UDP          *)
(* connection; the owner starts the recording with a bias determination,   *)
(* sets soft triggers and pauses, while the sensor processes sample and    *)
(* network messages arrive.                                                *)
(***************************************************************************)
NextPause ==
    \/ Construct
    \/ BiasMissing /\ StartRecording(TRUE)
    \/ StartRecording(FALSE)
    \/ PauseRecording
    \/ Events < PauseEvents /\ WriteSoftTrigger(7, <<>>)
    \/ PauseDrain
    \/ PauseFinish
    \/ BiasRequest
    \/ BiasWait
    \/ \E i \in 1..Len(procs) : Events < PauseEvents /\ WorkerSample(i)
    \/ \E i \in 1..Len(procs) : WorkerBias(i)
    \/ Events < PauseEvents /\ UdpReceive(Message(nudp + 1))

SpecPause == InitDrain /\ [][NextPause]_vars

(***************************************************************************)
(* SpecGui: the application.  start chooses the remote control, builds    *)
(* the recorder of one sensor with the UDP connection, determines the      *)
(* biases, gets the file name from the peer or the user, opens the data    *)
(* file and runs record_data, which polls the keyboard and the udp events  *)
(* until it is told to quit; start then calls quit(), and the exit hook    *)
(* calls it again when the process ends.  The peer sends any of            *)
(* GuiPayloads; the udp process sends what is on the send queue.           *)
(***************************************************************************)
GuiPayloads ==
    {RcCmd.GET_FZ, RcCmd.GET_TX, RcCmd.START, RcCmd.QUIT,
     RcCmd.THRESHOLDS \o "[10]", RcCmd.THRESHOLDS \o "[10",
     RcCmd.FILENAME \o "run", "$cmd:bogus", "hello"}

\* the udp process takes the next message off the send queue and sends it
UdpSend ==
    /\ udp.present
    /\ udp.running
    /\ udp.send_queue # <<>>
    /\ udp' = [udp EXCEPT !.send_queue = Tail(@)]
    /\ UNCHANGED <<force_sensor_settings, poll_udp_connection, pc, cont, k,
                   data, procs, sample_counter, is_recording, file,
                   filename, soft_trigger, disk, dirs, minute, now, ret,
                   produced, returned, discarded, unwritten, nquit, nudp,
                   ntrig, opened, unpolled, gui>>

InitGui == InitWith(AsList(<<SensorSettings(1)>>), TRUE, NoFiles)

NextGui ==
    \/ Initialize
    \/ gui.at = "recorder" /\ Construct
    \/ gui.at = "recorder" /\ BiasMissing /\ DetermineBiases
    \/ WaitForFilename
    \/ AskFilename
    \/ KeepFilename
    \/ gui.at = "open" /\ Len(opened) = 0
          /\ OpenDataFile(gui.filename, "data", FALSE, TRUE, "", FALSE)
    \/ Len(udp.send_queue) < GuiSends /\ RecordDataUdp
    \/ RecordDataStatus
    \/ RecordDataPaused
    \/ RecordDataSample
    \/ RecordDataEnd
    \/ gui.at = "quit" /\ nquit = 0 /\ Quit
    \/ gui.at = "quit" /\ nquit = 1 /\ ProcessExit
    \/ PauseDrain
    \/ PauseFinish
    \/ BiasRequest
    \/ BiasWait
    \/ QuitClose
    \/ QuitStop
    \/ \E i \in 1..Len(procs) : now < GuiSamples /\ WorkerSample(i)
    \/ \E i \in 1..Len(procs) : WorkerBias(i)
    \/ \E string \in GuiPayloads :
          nudp < GuiMessages /\ UdpReceive(string)
    \/ UdpSend

SpecGui == InitGui /\ [][NextGui]_vars

(***************************************************************************)
(* SpecCodes: a recorder of one sensor whose device id is any of           *)
(* CodesDeviceIds, with the UDP connection; the owner opens a data file,   *)
(* sets soft triggers and pauses.                                          *)
(***************************************************************************)
CodesDeviceIds == {1, CODE_SOFTTRIGGER, CODE_UDPDATA}

InitCodes ==
    \E device_id \in CodesDeviceIds :
        InitWith(AsList(<<SensorSettings(device_id)>>), TRUE, NoFiles)

NextCodes ==
    \/ Construct
    \/ Len(opened) = 0 /\ OpenDataFile("run", "data", FALSE, FALSE, "", FALSE)
    \/ CloseDataFile
    \/ PauseRecording
    \/ PauseDrain
    \/ PauseFinish
    \/ Events < CodesEvents /\ WriteSoftTrigger(7, <<>>)
    \/ \E i \in 1..Len(procs) : Events < CodesEvents /\ WorkerSample(i)
    \/ Events < CodesEvents /\ UdpReceive(Message(nudp + 1))

SpecCodes == InitCodes /\ [][NextCodes]_vars

(***************************************************************************)
(* SpecClosed: a recorder of two sensors whose owner goes on calling       *)
(* start_recording, determine_biases, pause_recording and quit after a     *)
(* quit() has returned.                                                    *)
(***************************************************************************)
NextClosed ==
    \/ Construct
    \/ StartRecording(FALSE)
    \/ PauseRecording
    \/ DetermineBiases
    \/ PauseDrain
    \/ PauseFinish
    \/ BiasRequest
    \/ BiasWait
    \/ nquit < ClosedQuits /\ Quit
    \/ QuitClose
    \/ QuitStop
    \/ \E i \in 1..Len(procs) : now < ClosedSamples /\ WorkerSample(i)
    \/ \E i \in 1..Len(procs) : WorkerBias(i)

SpecClosed == InitBias /\ [][NextClosed]_vars

(***************************************************************************)
(* SpecCount: the recorder of two sensors with the UDP connection; the     *)
(* owner determines the biases, starts and pauses the recording, polls the *)
(* udp events, sets soft triggers, opens and closes a data file and ends   *)
(* with quit(), while the sensor processes buffer samples and the udp      *)
(* process receives messages.                                              *)
(***************************************************************************)
CountCalls ==
    \/ StartRecording(FALSE)
    \/ PauseRecording
    \/ DetermineBiases
    \/ ProcessUdpEvents
    \/ Events < CountEvents /\ WriteSoftTrigger(7, <<>>)
    \/ Len(opened) < CountOpens
          /\ OpenDataFile("run", "data", FALSE, FALSE, "", FALSE)
    \/ CloseDataFile

NextCount ==
    \/ Construct
    \/ nquit = 0 /\ CountCalls
    \/ PauseDrain
    \/ PauseFinish
    \/ BiasRequest
    \/ BiasWait
    \/ nquit = 0 /\ Quit
    \/ QuitClose
    \/ QuitStop
    \/ \E i \in 1..Len(procs) : Events < CountEvents /\ WorkerSample(i)
    \/ \E i \in 1..Len(procs) : WorkerBias(i)
    \/ Events < CountEvents /\ UdpReceive(Message(nudp + 1))

SpecCount == InitDrain /\ [][NextCount]_vars

(***************************************************************************)
(* SpecLoop: the application as in SpecGui, with a peer that sends only    *)
(* the file name and the start, pause and quit commands, and a user at the *)
(* keyboard.                                                               *)
(***************************************************************************)
LoopPayloads ==
    {RcCmd.START, RcCmd.PAUSE, RcCmd.QUIT, RcCmd.FILENAME \o "run"}

NextLoop ==
    \/ Initialize
    \/ gui.at = "recorder" /\ Construct
    \/ gui.at = "recorder" /\ BiasMissing /\ DetermineBiases
    \/ WaitForFilename
    \/ AskFilename
    \/ KeepFilename
    \/ gui.at = "open" /\ Len(opened) = 0
          /\ OpenDataFile(gui.filename, "data", FALSE, TRUE, "", FALSE)
    \/ Len(udp.send_queue) < LoopSends /\ RecordDataUdp
    \/ RecordDataStatus
    \/ RecordDataPaused
    \/ RecordDataSample
    \/ RecordDataEnd
    \/ gui.at = "quit" /\ nquit = 0 /\ Quit
    \/ PauseDrain
    \/ PauseFinish
    \/ BiasRequest
    \/ BiasWait
    \/ QuitClose
    \/ QuitStop
    \/ \E i \in 1..Len(procs) : Events < LoopEvents /\ WorkerSample(i)
    \/ \E i \in 1..Len(procs) : WorkerBias(i)
    \/ \E string \in LoopPayloads :
          Events < LoopEvents /\ UdpReceive(string)
    \/ UdpSend

SpecLoop == InitGui /\ [][NextLoop]_vars

(***************************************************************************)
(* Notions the properties are stated in                                    *)
(***************************************************************************)
Occurrences(x, s) == Count(LAMBDA y : y = x, s)

\* the number of lines equal to `row` in the files of the set `paths`
RECURSIVE RowsIn(_, _)
RowsIn(paths, row) ==
    IF paths = {} THEN 0
    ELSE LET p == CHOOSE q \in paths : TRUE
         IN Occurrences(row, disk[p]) + RowsIn(paths \ {p}, row)

RowsOnDisk(row) == RowsIn(DOMAIN disk, row)

\* sample d is still in the buffer of a sensor process
Buffered(d) == \E i \in 1..Len(procs) : Occurrences(d, procs[i].buffer) > 0

\* quit() has returned: to the owner, or in the exit hook
QuitReturned == nquit > 0 /\ pc \in {"idle", "exited"}

AllStopped == \A i \in 1..Len(procs) : ~procs[i].running

\* the soft-trigger lines of a file, and the line of a pending marker
IsTriggerRow(row) == row[1] = ToString(CODE_SOFTTRIGGER)
TriggerRows(rows) == Filter(IsTriggerRow, rows)
MarkerRow(t) == <<"88", ToString(t.time), ToString(t.code), "0", "0">>

\* the number of soft-trigger lines in the files of the set `paths`
RECURSIVE TriggerRowsIn(_)
TriggerRowsIn(paths) ==
    IF paths = {} THEN 0
    ELSE LET p == CHOOSE q \in paths : TRUE
         IN Len(TriggerRows(disk[p])) + TriggerRowsIn(paths \ {p})

TriggerRowsOnDisk == TriggerRowsIn(DOMAIN disk)

\* the step that ends pause_recording: the owner leaves the sensor loop
AtPauseEnd == pc = "pause" /\ k > Len(procs) /\ pc' # "pause"

(***************************************************************************)
(* C1.  When the last quit() has returned and the process is over, every   *)
(* sample a worker ever buffered has been returned exactly once by the     *)
(* pause_recording() calls and the quit() calls together.  The samples     *)
(* drained inside determine_biases, whose buffer the recorder throws away, *)
(* are not held against the claim.                                         *)
(***************************************************************************)
C1_EverySampleReturnedOnce ==
    pc = "exited" =>
        \A i \in 1..Len(produced) :
            Occurrences(produced[i], returned)
              + Occurrences(produced[i], discarded) = 1

(***************************************************************************)
(* C2, as claimed.  When quit() has returned, every sample the recorder    *)
(* drained from a worker outside bias determination is in a data file:     *)
(* none was dropped because no file was open when it was drained.          *)
(***************************************************************************)
C2_DrainedSamplesAreOnDisk ==
    QuitReturned =>
        \A i \in 1..Len(produced) :
            (~Buffered(produced[i])
               /\ Occurrences(produced[i], discarded) = 0)
            => RowsOnDisk(Row(produced[i])) >= 1

(***************************************************************************)
(* C2, amended.  In every state, a sample that was drained while a data    *)
(* file was open has exactly one line in the files, also after that file   *)
(* was closed or replaced; a sample that is still buffered or was drained  *)
(* while no file was open has none.                                        *)
(***************************************************************************)
C2_DrainedWithOpenFileWrittenOnce ==
    \A i \in 1..Len(produced) :
        RowsOnDisk(Row(produced[i])) =
            IF Buffered(produced[i])
                  \/ Occurrences(produced[i], unwritten) > 0
            THEN 0 ELSE 1

\* a sample was drained into a file that has since been replaced by another
\* one, a second sample was drained with no file open, and quit() returned
C2_Witness ==
    /\ QuitReturned
    /\ Len(produced) = 2
    /\ Cardinality(DOMAIN disk) = 2
    /\ \E p \in DOMAIN disk :
          /\ p # Path("data", filename)
          /\ Occurrences(Row(produced[1]), disk[p]) = 1
    /\ Occurrences(produced[2], unwritten) = 1

(***************************************************************************)
(* C3.  start_recording(determine_bias=False): with a bias gate unset the  *)
(* call raises, no worker is told to start polling and is_recording keeps  *)
(* its value; with every gate set every worker is told to start polling    *)
(* and is_recording becomes true.                                          *)
(***************************************************************************)
C3_StartRecordingNeedsBias ==
    [][StartRecording(FALSE) =>
         IF \E i \in 1..Len(procs) : ~procs[i].event_bias_is_available
         THEN /\ ret'.raised
              /\ procs' = procs
              /\ is_recording' = is_recording
         ELSE /\ ~ret'.raised
              /\ is_recording'
              /\ \A i \in 1..Len(procs') : procs'[i].polling]_vars

\* start_recording() has raised in a recorder whose gates are not set
C3_Witness ==
    /\ pc = "idle"
    /\ ret.raised
    /\ ~is_recording
    /\ \E i \in 1..Len(procs) : ~procs[i].event_bias_is_available
    /\ \A i \in 1..Len(procs) : ~procs[i].polling

(***************************************************************************)
(* C4.  A second quit() returns an empty buffer without raising and        *)
(* leaves the file closed and every worker stopped.                        *)
(***************************************************************************)
C4_SecondQuitReturnsNothing ==
    (nquit >= 2 /\ pc \in {"idle", "exited"}) =>
        /\ ~ret.raised
        /\ ret.val = <<>>
        /\ file = PyNone
        /\ AllStopped

(***************************************************************************)
(* C5.  A soft trigger set without a time of its own is stamped with a     *)
(* time not before the timer value at the call, and the pause_recording    *)
(* that follows, if it runs with a data file open, adds to that file one   *)
(* soft-trigger line for every pending marker, with the marker's time and  *)
(* code, in the order of the calls.                                        *)
(***************************************************************************)
C5_OneRowPerSoftTrigger ==
    [][/\ \A code \in {7} :
            WriteSoftTrigger(code, <<>>) =>
                /\ Len(soft_trigger') = Len(soft_trigger) + 1
                /\ soft_trigger'[Len(soft_trigger')].code = code
                /\ soft_trigger'[Len(soft_trigger')].time >= now
       /\ (AtPauseEnd /\ file # PyNone) =>
             TriggerRows(disk'[file]) =
                TriggerRows(disk[file]) \o SeqMap(MarkerRow, soft_trigger)
      ]_vars

\* one marker with code 7 was set after the timer had advanced, the pause
\* is over, and the file holds exactly one soft-trigger line, with code 7
C5_Witness ==
    /\ pc = "idle"
    /\ ntrig = 1
    /\ soft_trigger = <<>>
    /\ \E p \in DOMAIN disk :
          /\ Len(TriggerRows(disk[p])) = 1
          /\ TriggerRows(disk[p])[1][3] = "7"
          /\ TriggerRows(disk[p])[1][2] = "1"

(***************************************************************************)
(* C6.  write_soft_trigger appends one marker to the pending list and      *)
(* changes neither the files, the open file, is_recording nor the sample   *)
(* counters; soft-trigger lines reach a file only at the end of a          *)
(* pause_recording; every pause_recording leaves the pending list empty;   *)
(* and no marker is written twice: the files never hold more soft-trigger  *)
(* lines than markers were set and are no longer pending.                  *)
(***************************************************************************)
C6_SoftTriggersWaitForPause ==
    /\ [][/\ \A code \in {7}, time \in {<<>>, <<0>>} :
               WriteSoftTrigger(code, time) =>
                   /\ Len(soft_trigger') = Len(soft_trigger) + 1
                   /\ SubSeq(soft_trigger', 1, Len(soft_trigger))
                         = soft_trigger
                   /\ soft_trigger'[Len(soft_trigger')].code = code
                   /\ UNCHANGED <<disk, file, is_recording, sample_counter>>
          /\ (TriggerRowsOnDisk' # TriggerRowsOnDisk) => AtPauseEnd
          /\ AtPauseEnd => soft_trigger' = <<>>
         ]_vars
    /\ [](TriggerRowsOnDisk + Len(soft_trigger) <= ntrig)

\* a marker was set while a file was open and is still pending: nothing of
\* it is in the file
C6_Witness ==
    /\ pc = "idle"
    /\ file # PyNone
    /\ Len(soft_trigger) = 1
    /\ ntrig = 1
    /\ TriggerRowsOnDisk = 0

(***************************************************************************)
(* C7.  process_udp_events() with an empty receive queue, or without a     *)
(* UDP connection, returns an empty buffer, does not raise, writes         *)
(* nothing, and leaves the sensor buffers, the pending soft triggers and   *)
(* the sample counters alone.                                              *)
(***************************************************************************)
C7_NoUdpEventsNoEffect ==
    [][(ProcessUdpEvents /\ (~udp.present \/ udp.receive_queue = <<>>)) =>
          /\ ret' = [raised |-> FALSE, val |-> <<>>]
          /\ UNCHANGED <<disk, file, procs, soft_trigger, sample_counter,
                         is_recording>>
      ]_vars

\* process_udp_events() can be called with nothing queued while a file is
\* open, the sensor buffer holds a sample and a soft trigger is pending, and
\* the last call returned an empty buffer
C7_Witness ==
    /\ pc = "idle"
    /\ udp.receive_queue = <<>>
    /\ file # PyNone
    /\ procs[1].buffer # <<>>
    /\ soft_trigger # <<>>
    /\ ret = [raised |-> FALSE, val |-> <<>>]


\* the names expected of a recorded open_data_file call: the base name, the
\* counter if there is one, the time stamp and the ending
BaseName(o) ==
    IF o.name_arg = PyNone \/ o.name_arg = "" THEN "daq_recording"
    ELSE o.name_arg
Ending(o) ==
    (IF o.time_stamp_filename THEN "_" \o o.minute ELSE "")
        \o (IF o.zipped THEN ".gz" ELSE "")
Plain(o) == BaseName(o) \o Ending(o)
Numbered(o, cnt) == BaseName(o) \o "_" \o ToString(cnt) \o Ending(o)

\* the first two calls were the same call, made in an empty directory
TwiceInEmptyDirectory ==
    /\ Len(opened) >= 2
    /\ opened[1].before = {}
    /\ BaseName(opened[1]) = BaseName(opened[2])
    /\ opened[1].directory = opened[2].directory
    /\ opened[1].time_stamp_filename = opened[2].time_stamp_filename
    /\ opened[1].zipped = opened[2].zipped

\* every call opened a file that was not in the directory before the call,
\* and a step that opens a file leaves the files already there as they are
OpensOnlyNewFiles ==
    /\ [](\A i \in 1..Len(opened) :
             Path(opened[i].directory, opened[i].result)
                 \notin opened[i].before)
    /\ [][opened' # opened =>
             /\ file' \notin DOMAIN disk
             /\ file' = Path("data", filename')
             /\ ret' = [raised |-> FALSE, val |-> <<filename'>>]
             /\ \A p \in DOMAIN disk : disk'[p] = disk[p]]_vars

(***************************************************************************)
(* C8, as claimed.  Two open_data_file calls with the same arguments in    *)
(* an initially empty directory give two names, the first without a        *)
(* counter and the second with the counter _1.                             *)
(***************************************************************************)
C8_SecondNameHasCounter ==
    TwiceInEmptyDirectory =>
        /\ opened[1].result # opened[2].result
        /\ opened[1].result = Plain(opened[1])
        /\ opened[2].result = Numbered(opened[2], 1)

(***************************************************************************)
(* C8, amended.  Every open_data_file call opens a file that was not in    *)
(* the directory before the call and leaves the files already there as     *)
(* they are; and of two calls with the same arguments in an initially      *)
(* empty directory, which are not time-stamped or fall into the same       *)
(* minute of the wall clock, the first gives the name without a counter    *)
(* and the second the name with the counter _1.                            *)
(***************************************************************************)
C8_OpenNeverOverwrites ==
    /\ OpensOnlyNewFiles
    /\ []((TwiceInEmptyDirectory
             /\ (opened[1].time_stamp_filename
                    => opened[1].minute = opened[2].minute))
          => /\ opened[1].result # opened[2].result
             /\ opened[1].result = Plain(opened[1])
             /\ opened[2].result = Numbered(opened[2], 1))

\* "run" was opened twice with a time stamp, in the same minute, in an
\* empty directory: the second call found the file of the first, chose the
\* counter _1, and the file of the first still holds its header
C8_Witness ==
    /\ TwiceInEmptyDirectory
    /\ opened[1].time_stamp_filename
    /\ opened[1].minute = "202601011201"
    /\ opened[1].result = "run_202601011201.gz"
    /\ opened[2].result = "run_1_202601011201.gz"
    /\ opened[2].before = {"data/run_202601011201.gz"}
    /\ disk["data/run_202601011201.gz"] = Header(TRUE, "")
    /\ file = "data/run_1_202601011201.gz"

\* the device ids of the settings handed to the constructor
DeviceIds(settings) ==
    [i \in 1..Len(settings) |-> settings[i].device_id]
Distinct(s) == \A i, j \in 1..Len(s) : i # j => s[i] # s[j]
Constructed == pc # "new"

(***************************************************************************)
(* C9.  A construction from settings of which two share a device_id        *)
(* raises, and the sensor processes of a constructed recorder have         *)
(* pairwise distinct device_ids.                                           *)
(***************************************************************************)
C9_DuplicateDeviceIdFails ==
    Constructed =>
        /\ ~Distinct(DeviceIds(Filter(IsSensorSettings,
                                      SettingsList(force_sensor_settings))))
              => ret.raised
        /\ ~ret.raised => Distinct(DeviceIds(procs))

(***************************************************************************)
(* C10.  A construction from settings of which one is no SensorSettings    *)
(* raises, and after a construction that raised no sensor process is       *)
(* running.                                                                *)
(***************************************************************************)
C10_InvalidSettingsRaise ==
    Constructed =>
        /\ (\E fs \in Range(SettingsList(force_sensor_settings)) :
               ~IsSensorSettings(fs)) => ret.raised
        /\ ret.raised => \A i \in 1..Len(procs) : ~procs[i].running

\* the samples of device dev in a buffer
OfDevice(dev, buffer) ==
    Filter(LAMBDA d : IsForceData(d) /\ d.device_id = dev, buffer)

\* the samples of device dev that no call has drained before this step and
\* that are not in the worker's buffer after it
NewlyDrained(dev) ==
    Filter(LAMBDA d : /\ d.device_id = dev
                      /\ Occurrences(d, returned) = 0
                      /\ Occurrences(d, discarded) = 0
                      /\ \A i \in 1..Len(procs) :
                            d \notin Range(procs'[i].buffer),
           produced)

(***************************************************************************)
(* C11, as claimed.  A pause_recording() that ends a recording takes from  *)
(* a worker only samples the worker buffered while it was polling: none    *)
(* that it buffered while the recorder was paused.                         *)
(***************************************************************************)
C11_NoPausedSampleReturned ==
    [][(PauseDrain /\ cont = "owner" /\ procs[k].polling) =>
          \A d \in Range(procs[k].buffer) : d \notin Range(unpolled)]_vars

(***************************************************************************)
(* C11, amended.  pause_recording() returns, for each device, exactly the  *)
(* samples the device buffered since its buffer was last drained, each     *)
(* once and in the order they were buffered, with a timestamp not after    *)
(* the end of the call; samples buffered while the recorder was paused     *)
(* are among them.                                                         *)
(***************************************************************************)
C11_PauseReturnsSamplesSinceLastDrain ==
    [][(AtPauseEnd /\ cont = "owner") =>
          /\ ~ret'.raised
          /\ \A dev \in DOMAIN sample_counter :
                OfDevice(dev, ret'.val) = NewlyDrained(dev)
          /\ \A j \in 1..Len(ret'.val) :
                IsForceData(ret'.val[j]) => ret'.val[j].time <= now]_vars

\* the biases are determined, and a pause_recording() that ends a recording
\* has drained both workers: of the two samples it is about to return, one
\* was buffered while the recorder was paused and one while it recorded
C11_Witness ==
    /\ pc = "pause"
    /\ cont = "owner"
    /\ k > Len(procs)
    /\ ~BiasMissing
    /\ Len(data) = 2
    /\ \E i, j \in 1..2 :
          /\ data[i] \in Range(unpolled)
          /\ data[j] \notin Range(unpolled)

(***************************************************************************)
(* C12.  determine_biases, whatever the recorder's state: the call begins  *)
(* with pause_recording; a worker is asked for its bias only after that    *)
(* pause, with is_recording false and no worker polling, and then every    *)
(* worker is asked; the call returns only with every gate set; and         *)
(* is_recording is false when it returns.                                  *)
(***************************************************************************)
C12_DetermineBiasesPausesAsksWaits ==
    [][/\ DetermineBiases => (pc' = "pause" /\ ~is_recording')
       /\ (\E i \in 1..Len(procs) : procs'[i].biasing /\ ~procs[i].biasing)
             => /\ pc = "bias_request"
                /\ ~is_recording
                /\ \A i \in 1..Len(procs) :
                      ~procs[i].polling /\ procs'[i].biasing
       /\ (pc = "bias_request" /\ pc' # pc) => pc' = "bias_wait"
       /\ (pc = "bias_wait" /\ pc' # pc) =>
             /\ \A i \in 1..Len(procs) : procs[i].event_bias_is_available
             /\ cont = "bias" => (pc' = "idle" /\ ~is_recording'
                                    /\ ~ret'.raised)
      ]_vars

\* determine_biases was called while the recorder was recording: its
\* pause_recording has set is_recording to false, stopped the polling and
\* drained a sample a worker buffered while it was recording, and the
\* workers have not been asked for their biases yet
C12_Witness ==
    /\ pc = "pause"
    /\ cont = "bias"
    /\ k > Len(procs)
    /\ ~is_recording
    /\ \A i \in 1..Len(procs) : ~procs[i].polling /\ ~procs[i].biasing
    /\ \E j \in 1..Len(data) : data[j] \notin Range(unpolled)

\* the owner's thread is inside quit()
InQuit == pc \in {"pause", "quit_close", "quit_stop"} /\ cont \in {"quit", "exit"}

(***************************************************************************)
(* C13.  quit(), from any state: the call begins with pause_recording,     *)
(* which sets is_recording to false; then the file is closed and the UDP   *)
(* process stopped, then the sensor processes are stopped, and the buffer  *)
(* of the pause is returned.  Inside quit() the file is closed only after  *)
(* the pause, when is_recording is false and every event of the buffer is  *)
(* in the file that was open; a sensor process is stopped only after the   *)
(* file is closed and the UDP process stopped, with is_recording false.    *)
(***************************************************************************)
C13_QuitPausesClosesStops ==
    [][/\ (Quit \/ ProcessExit) => (pc' = "pause" /\ ~is_recording')
       /\ (InQuit /\ pc = "pause" /\ pc' # pc) => pc' = "quit_close"
       /\ (pc = "quit_close" /\ pc' # pc) =>
             /\ pc' = "quit_stop"
             /\ file' = PyNone
             /\ ~udp'.running
             /\ procs' = procs
       /\ (pc = "quit_stop" /\ pc' # pc) =>
             /\ pc' \in {"idle", "exited"}
             /\ ret' = [raised |-> FALSE, val |-> data]
             /\ \A i \in 1..Len(procs) : ~procs'[i].running
       /\ (InQuit /\ file' # file) =>
             /\ pc = "quit_close"
             /\ ~is_recording
             /\ \A j \in 1..Len(data) :
                   Occurrences(Row(data[j]), disk[file]) = 1
       /\ (\E i \in 1..Len(procs) : procs[i].running /\ ~procs'[i].running)
             => /\ pc = "quit_stop"
                /\ ~is_recording
                /\ file = PyNone
                /\ ~udp.running
       /\ (InQuit /\ pc # "pause") => (data' = data \/ pc = "quit_stop")
       /\ InQuit => (disk' = disk \/ pc = "pause")
      ]_vars

\* quit() was called while the recorder was recording with a data file
\* open: is_recording is false, the first worker is drained and its sample
\* is in the file, the second worker is still polling, and the file is open
C13_Witness ==
    /\ pc = "pause"
    /\ cont = "quit"
    /\ k = 2
    /\ ~is_recording
    /\ procs[2].polling
    /\ procs[2].running
    /\ file # PyNone
    /\ Len(data) = 1
    /\ Occurrences(Row(data[1]), disk[file]) = 1

\* the last n rows of a file
LastRows(rows, n) == SubSeq(rows, Len(rows) - n + 1, Len(rows))

(***************************************************************************)
(* C14.  While a data file is open, what pause_recording,                  *)
(* process_udp_events and quit return is what they write: during a pause   *)
(* (also the pause of quit) the last rows of the file are the rows of the  *)
(* events drained so far, one row for each event and in the same order;    *)
(* the pause returns these events followed by the udp events and the soft  *)
(* triggers, and has written one row for each of them, in that order;      *)
(* process_udp_events appends one row for each event it returns, in that   *)
(* order; quit returns the buffer whose rows end the file when it is       *)
(* closed.  close_data_file with no file open changes nothing and does     *)
(* not raise.                                                              *)
(***************************************************************************)
C14_ReturnedEventsAreRowsInOrder ==
    /\ []((pc \in {"pause", "quit_close"} /\ file # PyNone
             /\ ~(pc = "pause" /\ FromBias))
          => /\ Len(disk[file]) >= Len(data)
             /\ LastRows(disk[file], Len(data)) = SeqMap(Row, data))
    /\ [][/\ (AtPauseEnd /\ cont = "owner" /\ file # PyNone) =>
                /\ Len(disk'[file]) - Len(disk[file])
                      = Len(ret'.val) - Len(data)
                /\ LastRows(disk'[file], Len(ret'.val))
                      = SeqMap(Row, ret'.val)
          /\ (ProcessUdpEvents /\ file # PyNone) =>
                disk'[file] = disk[file] \o SeqMap(Row, ret'.val)
          /\ (pc = "quit_close" /\ pc' # pc /\ file # PyNone) =>
                /\ disk' = disk
                /\ data' = data
          /\ (pc = "quit_stop" /\ pc' # pc) => ret'.val = data
          /\ (CloseDataFile /\ file = PyNone) =>
                /\ UNCHANGED <<file, disk, filename>>
                /\ ~ret'.raised
         ]_vars

\* a pause_recording with the data file open has returned a sample, a udp
\* event and a soft trigger, and the file holds their three rows, in the
\* order of the returned buffer
C14_Witness ==
    /\ pc = "idle"
    /\ file # PyNone
    /\ Len(ret.val) = 3
    /\ ret.val[1] \in Range(produced)
    /\ ret.val[2] = UDPData(ret.val[2].time, Message(1))
    /\ ret.val[3] = SoftTrigger(ret.val[3].time, 7)
    /\ disk[file] = SeqMap(Row, ret.val)

(***************************************************************************)
(* C15, as claimed.  When the exit hook's quit(), with no quit() called    *)
(* before it, is about to close the open data file, nothing that was       *)
(* buffered is left out of the file: every sample a sensor process         *)
(* buffered has a row in a file, unless it was drained while no file was   *)
(* open, no command event is left in the receive queue and no soft trigger *)
(* is pending.  When that quit() has ended, the file is closed and every   *)
(* worker is stopped.                                                      *)
(***************************************************************************)
C15_ExitHookFlushesEverything ==
    /\ (pc = "quit_close" /\ cont = "exit" /\ nquit = 0 /\ file # PyNone) =>
          /\ \A i \in 1..Len(produced) :
                Occurrences(produced[i], unwritten) = 0
                => RowsOnDisk(Row(produced[i])) = 1
          /\ udp.receive_queue = <<>>
          /\ soft_trigger = <<>>
    /\ (pc = "exited" /\ nquit = 1) =>
          /\ file = PyNone
          /\ AllStopped
          /\ ~udp.running

\* the axis a per-channel query asks for
QueryAxis(string) ==
    CASE string = RcCmd.GET_FX -> "Fx"
      [] string = RcCmd.GET_FY -> "Fy"
      [] string = RcCmd.GET_FZ -> "Fz"
      [] string = RcCmd.GET_TX -> "Tx"
      [] string = RcCmd.GET_TY -> "Ty"
      [] string = RcCmd.GET_TZ -> "Tz"

IsQuery(d) == d.string \in Queries

\* the reply that carries the reading of the axis event d asks for
AxisReply(d) == RcCmd.PICKLED_VALUE \o dumps(Reading(QueryAxis(d.string)))

(***************************************************************************)
(* C16, as claimed.  With the remote control on, a turn of record_data's   *)
(* loop puts on the send queue exactly one reply for each per-channel      *)
(* query among the udp events it processes, in the order of the queries,   *)
(* and each reply carries the reading of the axis that was asked for.      *)
(***************************************************************************)
C16_QueryRepliedWithItsAxis ==
    [][(RecordDataUdp /\ gui.remote_control) =>
          udp'.send_queue =
              udp.send_queue \o SeqMap(AxisReply, Filter(IsQuery, UdpBuffer))
      ]_vars

\* event d is no verb of the remote control, or a thresholds command whose
\* text is no list
Malformed(d) ==
    /\ d.string \notin {RcCmd.START, RcCmd.PAUSE, RcCmd.QUIT} \cup Queries
    /\ ~startswith(d.string, RcCmd.FILENAME)
    /\ startswith(d.string, RcCmd.THRESHOLDS) =>
          LET tmp == eval(SliceFrom(d.string, Len(RcCmd.THRESHOLDS)))
          IN tmp.raised \/ ~tmp.is_list

(***************************************************************************)
(* C17, as claimed.  A turn of record_data's loop whose udp events are all *)
(* unrecognized or malformed logs them and does nothing else:              *)
(* process_udp_events returns them without raising and, with a file open,  *)
(* writes one row for each; the pause flag and the quit flag are what the  *)
(* keyboard alone makes them, and the thresholds and the send queue are    *)
(* left as they were.                                                      *)
(***************************************************************************)
C17_MalformedPayloadOnlyLogged ==
    [][(RecordDataUdp /\ UdpBuffer # <<>>
          /\ \A i \in 1..Len(UdpBuffer) : Malformed(UdpBuffer[i])) =>
          /\ ret' = Return(UdpBuffer)
          /\ file # PyNone =>
                disk'[file] = disk[file] \o SeqMap(Row, UdpBuffer)
          /\ \E key \in Keys :
                /\ gui'.pause_recording = Keyboard(gui, key).pause_recording
                /\ gui'.quit_recording = Keyboard(gui, key).quit_recording
          /\ gui'.level_thresholds = gui.level_thresholds
          /\ udp'.send_queue = udp.send_queue
      ]_vars

(***************************************************************************)
(* C18, as claimed.  The code of the soft-trigger rows and the code of the *)
(* command-event rows are two different integers, and no row written for a *)
(* force sample begins with either of them, whatever device id the         *)
(* recorder was constructed with.                                          *)
(***************************************************************************)
C18_SampleRowsNeverCarryACode ==
    /\ CODE_SOFTTRIGGER # CODE_UDPDATA
    /\ \A i \in 1..Len(produced) :
          RowsOnDisk(Row(produced[i])) > 0 =>
              Row(produced[i])[1] \notin
                  {ToString(CODE_SOFTTRIGGER), ToString(CODE_UDPDATA)}

(***************************************************************************)
(* C19, as claimed.  The receive queue is a FIFO between the udp process   *)
(* and the recorder: a step that changes it is either the udp process      *)
(* putting a command event at its end, or a process_udp_events (also the   *)
(* one of record_data's loop) or the end of a pause_recording (also the    *)
(* one of quit) taking all of it, in queue order, to return it and, with a *)
(* file open, to write it; no other step takes an event off the queue,     *)
(* and none is left on it when the process has ended.                      *)
(***************************************************************************)
C19_CommandEventsDeliveredOnceInOrder ==
    /\ [][udp'.receive_queue # udp.receive_queue =>
            \/ \E string \in GuiPayloads : UdpReceive(string)
            \/ /\ ProcessUdpEvents \/ RecordDataUdp
               /\ udp'.receive_queue = <<>>
               /\ ret'.val = udp.receive_queue
            \/ /\ PauseFinish
               /\ udp'.receive_queue = <<>>
               /\ file # PyNone =>
                     disk'[file] = disk[file] \o
                         SeqMap(Row, udp.receive_queue \o soft_trigger)
         ]_vars
    /\ [](pc = "exited" => udp.receive_queue = <<>>)

IsPrefix(s, t) == Len(s) <= Len(t) /\ SubSeq(t, 1, Len(s)) = s

(***************************************************************************)
(* C20.  A pause_recording call of the owner sets is_recording to false    *)
(* and begins with an empty buffer at the first sensor process.  Until it  *)
(* returns, is_recording stays false and the only steps that take anything *)
(* out of a source are its own: one step for each sensor process, in the   *)
(* order of construction, takes the whole buffer of that process and adds  *)
(* it to the end of the call's buffer; the receive queue and the pending   *)
(* soft triggers are left alone until every sensor process has been        *)
(* drained, and are then both emptied.  The call returns the sensor        *)
(* buffers in that order, then the command events, then the soft triggers, *)
(* each event once, whatever their timestamps are.                         *)
(***************************************************************************)
C20_PauseDrainsEachSourceOnceInOrder ==
    [][/\ PauseRecording =>
             /\ ~is_recording'
             /\ data' = <<>>
             /\ k' = 1
       /\ (pc = "pause" /\ cont = "owner") =>
             /\ ~is_recording'
             /\ PauseDrain =>
                   /\ data' = data \o procs[k].buffer
                   /\ procs'[k].buffer = <<>>
                   /\ k' = k + 1
                   /\ \A i \in 1..Len(procs) :
                         i # k => procs'[i].buffer = procs[i].buffer
             /\ (~PauseDrain /\ pc' = "pause") =>
                   /\ k' = k
                   /\ data' = data
                   /\ \A i \in 1..Len(procs) :
                         IsPrefix(procs[i].buffer, procs'[i].buffer)
             /\ pc' = "pause" =>
                   /\ IsPrefix(udp.receive_queue, udp'.receive_queue)
                   /\ soft_trigger' = soft_trigger
             /\ pc' # "pause" =>
                   /\ k = Len(procs) + 1
                   /\ ret' = Return((data \o udp.receive_queue)
                                       \o soft_trigger)
                   /\ udp'.receive_queue = <<>>
                   /\ soft_trigger' = <<>>
                   /\ \A i \in 1..Len(procs) :
                         procs'[i].buffer = procs[i].buffer
      ]_vars

\* a pause_recording called while recording has drained both sensor
\* processes and is about to drain the receive queue: its buffer holds the
\* sample of the first process before the earlier sample of the second, and
\* a command event is waiting
C20_Witness ==
    /\ pc = "pause"
    /\ cont = "owner"
    /\ k > Len(procs)
    /\ ~is_recording
    /\ Len(data) = 2
    /\ data[1].device_id = procs[1].device_id
    /\ data[2].device_id = procs[2].device_id
    /\ data[2].time < data[1].time
    /\ \A i \in 1..2 : data[i] \notin Range(unpolled)
    /\ Len(udp.receive_queue) = 1

(***************************************************************************)
(* C21, as claimed.  Once a quit() has returned the recorder is closed:    *)
(* is_recording is false in every later state, whatever the owner calls,   *)
(* and no sensor process buffers a sample any more.                        *)
(***************************************************************************)
C21_ClosedIsTerminal ==
    /\ [](nquit > 0 => ~is_recording)
    /\ [][nquit > 0 => produced' = produced]_vars

\* the number of samples of device dev that have been taken out of the
\* buffer of a sensor process
Drained(dev) ==
    Len(Filter(LAMBDA d : d.device_id = dev /\ ~Buffered(d), produced))

(***************************************************************************)
(* C22.  In every state the counter of each device is the number of        *)
(* samples of that device the recorder has drained from the sensor         *)
(* processes, with or without a data file open; no step after the          *)
(* construction makes a counter smaller, and process_udp_events,           *)
(* write_soft_trigger and the end of pause_recording, which write the      *)
(* command events and the soft triggers, leave the counters as they are.   *)
(***************************************************************************)
C22_CounterCountsDrainedSamples ==
    /\ [](\A dev \in DOMAIN sample_counter :
             sample_counter[dev] = Drained(dev))
    /\ [][/\ pc # "new" =>
                /\ DOMAIN sample_counter' = DOMAIN sample_counter
                /\ \A dev \in DOMAIN sample_counter :
                      sample_counter'[dev] >= sample_counter[dev]
          /\ (ProcessUdpEvents \/ WriteSoftTrigger(7, <<>>) \/ AtPauseEnd) =>
                sample_counter' = sample_counter
         ]_vars

\* one sample was drained with no data file open and another into the open
\* file, and the counters count both
C22_Witness ==
    /\ pc = "idle"
    /\ Len(produced) = 2
    /\ Len(unwritten) = 1
    /\ \E i \in 1..2 : RowsOnDisk(Row(produced[i])) = 1
    /\ \A dev \in DOMAIN sample_counter : sample_counter[dev] = Drained(dev)
    /\ \E dev \in DOMAIN sample_counter : sample_counter[dev] > 0
    /\ \A i \in 1..2 : ~Buffered(produced[i])

\* the flag pause_recording differs from its value at the previous turn of
\* the loop, or this is the first turn
FlagChanged == <<gui.pause_recording>> # gui.last_recording_status

IsFeedback(string) == startswith(string, RcCmd.FEEDBACK)

(***************************************************************************)
(* C23.  In record_data's loop, once the status of a turn has been         *)
(* settled and until the next turn polls the keyboard and the udp events,  *)
(* is_recording is the negation of the flag pause_recording.  The step     *)
(* that settles the status calls pause_recording() when the flag has       *)
(* changed, or this is the first turn, and the flag is set; it calls       *)
(* start_recording() when the flag has changed and is not set; it calls    *)
(* neither and leaves the recorder alone when the flag has not changed.    *)
(* With the remote control, the start puts 'started' and the returned      *)
(* pause puts 'paused' on the send queue, once; without it nothing is put; *)
(* and no other step puts a feedback message on the send queue.            *)
(***************************************************************************)
C23_RecordingFollowsPauseFlag ==
    /\ [](gui.at \in {"sample", "loop", "end"} =>
             is_recording = ~gui.pause_recording)
    /\ [][/\ RecordDataStatus =>
                /\ gui'.last_recording_status = <<gui.pause_recording>>
                /\ (pc' = "pause") = (FlagChanged /\ gui.pause_recording)
                /\ (gui'.at = "paused") = (pc' = "pause")
                /\ (FlagChanged /\ ~gui.pause_recording) =>
                      /\ is_recording'
                      /\ ret' = Return(<<>>)
                      /\ \A i \in 1..Len(procs) : procs'[i].polling
                      /\ udp'.send_queue =
                            IF gui.remote_control
                            THEN Append(udp.send_queue,
                                        RcCmd.FEEDBACK \o "started")
                            ELSE udp.send_queue
                /\ ~(FlagChanged /\ ~gui.pause_recording) =>
                      UNCHANGED <<procs, ret, udp>>
                /\ ~FlagChanged => UNCHANGED <<pc, is_recording>>
          /\ RecordDataPaused =>
                udp'.send_queue =
                    IF gui.remote_control
                    THEN Append(udp.send_queue, RcCmd.FEEDBACK \o "paused")
                    ELSE udp.send_queue
          /\ (gui.at = "paused" /\ gui'.at # "paused") => RecordDataPaused
          /\ (Len(Filter(IsFeedback, udp'.send_queue))
                 > Len(Filter(IsFeedback, udp.send_queue))) =>
                RecordDataStatus \/ RecordDataPaused
         ]_vars

\* under remote control the first turn of the loop has paused the recorder
\* and, after the peer's start command, a later turn has started it: the
\* recorder is recording, the flag is not set, and the send queue holds
\* 'paused' and 'started'
C23_Witness ==
    /\ gui.at = "loop"
    /\ gui.remote_control
    /\ is_recording
    /\ ~gui.pause_recording
    /\ nudp = 1
    /\ udp.send_queue = <<RcCmd.FEEDBACK \o "paused",
                          RcCmd.FEEDBACK \o "started">>

=============================================================================
